---- MODULE Spec2Model ----
(***************************************************************************)
(* Model of the batch orchestration and recovery engine of the DOCX/PPTX   *)
(* paraphrase pipelines (scripts/paraphrase_docx.py and                    *)
(* scripts/paraphrase_pptx.py).                                            *)
(*                                                                         *)
(* Texts are sequences of tokens: a positive integer i is a word that      *)
(* belongs to work item i, DELIM / DELIM_UPPER are the delimiter token     *)
(* "qbpdelim123" in lower / upper case, PARA is a paragraph break "\n\n".  *)
(* Adjacent words are separated by a single space.                         *)
(*                                                                         *)
(* Budgets are kept in units of 1/8000 word and estimates in milliseconds  *)
(* plus an exact fraction, so the float arithmetic of the source is        *)
(* reproduced by exact rational arithmetic.                                *)
(***************************************************************************)
EXTENDS Integers, Sequences, FiniteSets, TLC

\* ------------------------------------------------------------------------
\* Program constants
\* ------------------------------------------------------------------------
ACCOUNT_KEYS == <<"acc1", "acc2", "acc3">>

AccountSet == {ACCOUNT_KEYS[i] : i \in 1..Len(ACCOUNT_KEYS)}

Modes == {"dual", "standard", "ludicrous"}

MODE_DEFAULT_BUDGET == [dual |-> 520, standard |-> 950, ludicrous |-> 600]

MODE_TARGET_SECONDS == [dual |-> 18, standard |-> 9, ludicrous |-> 16]

MODE_MIN_WORDS_PER_ACCOUNT == [dual |-> 280, standard |-> 500, ludicrous |-> 300]

MODE_MAX_WORDS_PER_ACCOUNT == [dual |-> 760, standard |-> 1400, ludicrous |-> 900]

\* seconds * 1000
MODE_COORDINATION_PENALTY_MS == [dual |-> 1200, standard |-> 700, ludicrous |-> 1000]

\* the hysteresis margin 0.9 s, in milliseconds
HYSTERESIS_MS == 900

\* recursion cap of recover_account_chunk_parts
MAX_RECOVERY_DEPTH == 6

\* budget unit: 1/8000 word (rates are twentieths, health factors twentieths)
BUDGET_SCALE == 8000

\* max(120.0, ...) floor of the effective budget, in words
EFFECTIVE_BUDGET_FLOOR == 120

\* max(100.0, ...) floor of a plan's capacity, in words
CAPACITY_FLOOR == 100

\* ------------------------------------------------------------------------
\* Tokens and text operations
\* ------------------------------------------------------------------------
DELIM == 0

DELIM_UPPER == -2

PARA == -1

DelimTokens == {DELIM, DELIM_UPPER}

Max2(a, b) == IF a >= b THEN a ELSE b

\* the element of a one-element set: in {F(x) : x \in {e}} the expression e
\* is evaluated once, whatever the number of places F uses x in
Only(S) == CHOOSE x \in S : TRUE

Min2(a, b) == IF a <= b THEN a ELSE b

Abs(a) == IF a < 0 THEN 0 - a ELSE a

clamp(value, min_value, max_value) == Max2(min_value, Min2(max_value, value))

\* re.split on a separator class: the pieces between separator tokens,
\* empty pieces included
SplitAt(t, seps) ==
    LET pos == {i \in 1..Len(t) : t[i] \in seps}
        n == Cardinality(pos)
        \* the position of the k-th separator; 0 and Len(t) + 1 are the ends
        at(k) == IF k = 0 THEN 0
                 ELSE IF k = n + 1 THEN Len(t) + 1
                 ELSE CHOOSE q \in pos : Cardinality({r \in pos : r < q}) = k - 1
    IN [k \in 1..(n + 1) |-> SubSeq(t, at(k - 1) + 1, at(k) - 1)]

RECURSIVE StripLeft(_)
StripLeft(t) ==
    IF t # <<>> /\ Head(t) = PARA THEN StripLeft(Tail(t)) ELSE t

RECURSIVE StripRight(_)
StripRight(t) ==
    IF t # <<>> /\ t[Len(t)] = PARA THEN StripRight(SubSeq(t, 1, Len(t) - 1)) ELSE t

\* str.strip(): whitespace (here: paragraph breaks) removed at both ends
Strip(t) == StripRight(StripLeft(t))

\* [p.strip() for p in pieces if p.strip()]
StripNonEmpty(pieces) ==
    LET stripped == [i \in 1..Len(pieces) |-> Strip(pieces[i])]
    IN SelectSeq(stripped, LAMBDA p : p # <<>>)

RECURSIVE FlattenSeq(_)
\* the concatenation of the sequences of ss, halving ss at each step
FlattenSeq(ss) ==
    IF ss = <<>> THEN <<>>
    ELSE IF Len(ss) = 1 THEN ss[1]
    ELSE LET mid == Len(ss) \div 2
         IN FlattenSeq(SubSeq(ss, 1, mid)) \o FlattenSeq(SubSeq(ss, mid + 1, Len(ss)))

HasPara(t) == \E i \in 1..Len(t) : t[i] = PARA

\* the secondary split of parse_paraphrase_parts: every part that holds a
\* paragraph break is split on runs of breaks, the others are kept
SecondarySplit(parts) ==
    FlattenSeq([i \in 1..Len(parts) |->
        IF HasPara(parts[i])
        THEN StripNonEmpty(SplitAt(parts[i], {PARA}))
        ELSE <<parts[i]>>])

\* variant: only the delimiter as it was sent is matched
PrimarySplit_CaseSensitive(text) == StripNonEmpty(SplitAt(text, {DELIM}))

PrimarySplit(text) == StripNonEmpty(SplitAt(text, DelimTokens))

\* variant: a secondary split as far from the expected count as the primary
\* split is accepted
parse_paraphrase_parts_AcceptTie(text, expected_count) ==
    LET parts == PrimarySplit(text)
        recovered == SecondarySplit(parts)
    IN IF Len(parts) < expected_count
       THEN IF Len(recovered) = expected_count THEN recovered
            ELSE IF Abs(Len(recovered) - expected_count) <= Abs(Len(parts) - expected_count)
                 THEN recovered
                 ELSE parts
       ELSE parts

parse_paraphrase_parts(text, expected_count) ==
    LET parts == PrimarySplit(text)
        recovered == SecondarySplit(parts)
    IN IF Len(parts) < expected_count
       THEN IF Len(recovered) = expected_count THEN recovered
            ELSE IF Abs(Len(recovered) - expected_count) < Abs(Len(parts) - expected_count)
                 THEN recovered
                 ELSE parts
       ELSE parts

RECURSIVE JoinPara(_)
\* "\n\n".join(chunks), halving chunks at each step
JoinPara(chunks) ==
    IF chunks = <<>> THEN <<>>
    ELSE IF Len(chunks) = 1 THEN chunks[1]
    ELSE LET mid == Len(chunks) \div 2
         IN JoinPara(SubSeq(chunks, 1, mid)) \o <<PARA>>
                \o JoinPara(SubSeq(chunks, mid + 1, Len(chunks)))

\* the text of work item i is the single word i
ItemText(i) == <<i>>

build_batch_payload_text(ids) ==
    JoinPara(FlattenSeq([k \in 1..Len(ids) |-> << <<DELIM>>, ItemText(ids[k]) >>]))

\* re.sub(r"\s*\n+\s*", " ", text).strip() of the DOCX write-back: every
\* run of breaks becomes one space, i.e. the words become adjacent
CollapseBreaks(t) == SelectSeq(Strip(t), LAMBDA x : x # PARA)

\* ------------------------------------------------------------------------
\* Batch chunker (4.3).  items is the queue as the sequence of the items'
\* word counts; item ids are the positions 1..Len(items).
\* ------------------------------------------------------------------------
\* variant: the word cap is not tested
TakeStep_NoWordCap(items, st, max_items, max_words) ==
    IF st.stopped THEN st
    ELSE IF st.idx < Len(items) /\ Len(st.batch) < max_items
    THEN [st EXCEPT !.batch = Append(@, st.idx + 1),
                    !.idx = @ + 1,
                    !.total_words = @ + items[st.idx + 1]]
    ELSE [st EXCEPT !.stopped = TRUE]

\* one test of the while condition of take_request_batch and, when it
\* holds, one run of the loop body; st.idx is the 0-based cursor and
\* st.stopped tells that the loop has been left
TakeStep(items, st, max_items, max_words) ==
    IF st.stopped THEN st
    ELSE IF st.idx < Len(items) /\ Len(st.batch) < max_items
    THEN IF st.batch # <<>> /\ st.total_words + items[st.idx + 1] > max_words
         THEN [st EXCEPT !.stopped = TRUE]
         ELSE [st EXCEPT !.batch = Append(@, st.idx + 1),
                         !.idx = @ + 1,
                         !.total_words = @ + items[st.idx + 1]]
    ELSE [st EXCEPT !.stopped = TRUE]

RECURSIVE TakeLoop(_, _, _, _, _)
\* n iterations of the while loop of take_request_batch: the first half of
\* them, then, from the state they leave, the others
TakeLoop(items, st, n, max_items, max_words) ==
    IF n <= 0 THEN st
    ELSE IF n = 1 THEN TakeStep(items, st, max_items, max_words)
    ELSE CHOOSE done \in
             {TakeLoop(items, half, n - (n \div 2), max_items, max_words) :
                 half \in {TakeLoop(items, st, n \div 2, max_items, max_words)}} : TRUE

\* DOCX: cursor based
take_request_batch(items, start_index, max_items_per_request, max_words_per_request) ==
    LET Result(r) ==
            IF r.batch = <<>> /\ r.idx < Len(items)
            THEN [batch |-> <<r.idx + 1>>, idx |-> r.idx + 1, total_words |-> items[r.idx + 1]]
            ELSE [batch |-> r.batch, idx |-> r.idx, total_words |-> r.total_words]
    IN Only({Result(r) :
               r \in {TakeLoop(items,
                               [batch |-> <<>>, idx |-> start_index, total_words |-> 0,
                                stopped |-> FALSE],
                               Len(items) - start_index,
                               max_items_per_request, max_words_per_request)}})

\* the same step for the PPTX take_request_batch; st.remaining is the deque
TakeStepDeque(items, st, max_items, max_words) ==
    IF st.stopped THEN st
    ELSE IF st.remaining # <<>> /\ Len(st.batch) < max_items
    THEN IF st.batch # <<>> /\ st.total_words + items[Head(st.remaining)] > max_words
         THEN [st EXCEPT !.stopped = TRUE]
         ELSE [st EXCEPT !.batch = Append(@, Head(st.remaining)),
                         !.remaining = Tail(@),
                         !.total_words = @ + items[Head(st.remaining)]]
    ELSE [st EXCEPT !.stopped = TRUE]

RECURSIVE TakeLoopDeque(_, _, _, _, _)
\* n iterations of the while loop of the PPTX take_request_batch
TakeLoopDeque(items, st, n, max_items, max_words) ==
    IF n <= 0 THEN st
    ELSE IF n = 1 THEN TakeStepDeque(items, st, max_items, max_words)
    ELSE CHOOSE done \in
             {TakeLoopDeque(items, half, n - (n \div 2), max_items, max_words) :
                 half \in {TakeLoopDeque(items, st, n \div 2, max_items, max_words)}} : TRUE

\* PPTX: deque based
take_request_batch_pptx(items, rem, max_items_per_request, max_words_per_request) ==
    LET Result(r) ==
            IF r.batch = <<>> /\ r.remaining # <<>>
            THEN [batch |-> <<Head(r.remaining)>>, remaining |-> Tail(r.remaining)]
            ELSE [batch |-> r.batch, remaining |-> r.remaining]
    IN Only({Result(r) :
               r \in {TakeLoopDeque(items,
                                    [batch |-> <<>>, remaining |-> rem, total_words |-> 0,
                                     stopped |-> FALSE],
                                    Len(rem), max_items_per_request, max_words_per_request)}})

RECURSIVE SumWords(_, _)
\* sum(item.word_count for item in ids), halving ids at each step
SumWords(items, ids) ==
    IF ids = <<>> THEN 0
    ELSE IF Len(ids) = 1 THEN items[ids[1]]
    ELSE LET mid == Len(ids) \div 2
         IN SumWords(items, SubSeq(ids, 1, mid))
                + SumWords(items, SubSeq(ids, mid + 1, Len(ids)))

\* ------------------------------------------------------------------------
\* Work distributor (4.4)
\* ------------------------------------------------------------------------
\* variant: the account holding the fewest items is taken, whatever its words
MinTarget_FewestItems(accounts, buckets, bucket_words) ==
    LET Less(a, b) == Len(buckets[a]) < Len(buckets[b])
        IsMin(k) == \A j \in 1..Len(accounts) : ~Less(accounts[j], accounts[k])
    IN accounts[CHOOSE k \in 1..Len(accounts) :
                    IsMin(k) /\ \A j \in 1..(k - 1) : ~IsMin(j)]

\* min(accounts, key=(bucket_words, len(bucket))): the first minimal entry
MinTarget(accounts, buckets, bucket_words) ==
    LET Less(a, b) == \/ bucket_words[a] < bucket_words[b]
                      \/ /\ bucket_words[a] = bucket_words[b]
                         /\ Len(buckets[a]) < Len(buckets[b])
        IsMin(k) == \A j \in 1..Len(accounts) : ~Less(accounts[j], accounts[k])
    IN accounts[CHOOSE k \in 1..Len(accounts) :
                    IsMin(k) /\ \A j \in 1..(k - 1) : ~IsMin(j)]

\* variant: the item is put at the front of its bucket instead of at its end
DistributeStep_Prepend(items, id, accounts, st) ==
    LET target == MinTarget(accounts, st.buckets, st.bucket_words)
    IN [buckets |-> [st.buckets EXCEPT ![target] = <<id>> \o @],
        bucket_words |-> [st.bucket_words EXCEPT ![target] = @ + items[id]]]

\* the body of the for loop of split_into_account_chunks
DistributeStep(items, id, accounts, st) ==
    LET target == MinTarget(accounts, st.buckets, st.bucket_words)
    IN [buckets |-> [st.buckets EXCEPT ![target] = Append(@, id)],
        bucket_words |-> [st.bucket_words EXCEPT ![target] = @ + items[id]]]

RECURSIVE Distribute(_, _, _, _)
\* the for loop over ids in order: the first half of ids, then, from the
\* buckets it leaves, the second half
Distribute(items, ids, accounts, st) ==
    IF ids = <<>> THEN st
    ELSE IF Len(ids) = 1 THEN DistributeStep(items, ids[1], accounts, st)
    ELSE LET mid == Len(ids) \div 2
         IN CHOOSE done \in
                {Distribute(items, SubSeq(ids, mid + 1, Len(ids)), accounts, half) :
                    half \in {Distribute(items, SubSeq(ids, 1, mid), accounts, st)}} : TRUE

split_into_account_chunks(items, ids, selected_accounts) ==
    LET filtered == SelectSeq(selected_accounts, LAMBDA key : key \in AccountSet)
        accounts == IF filtered = <<>> THEN <<ACCOUNT_KEYS[1]>> ELSE filtered
        keys == {accounts[k] : k \in 1..Len(accounts)}
        All(buckets) == [k \in 1..Len(accounts) |->
                            [account_key |-> accounts[k], ids |-> buckets[accounts[k]]]]
        all == Only({All(st.buckets) :
                       st \in {Distribute(items, ids, accounts,
                                          [buckets |-> [a \in keys |-> <<>>],
                                           bucket_words |-> [a \in keys |-> 0]])}})
    IN SelectSeq(all, LAMBDA c : c.ids # <<>>)

\* ------------------------------------------------------------------------
\* Account fallback order (4.6 step 4)
\* ------------------------------------------------------------------------
\* variant: the preferred account is not moved to the front
recovery_account_order_Declared(preferred_account_key) == ACCOUNT_KEYS

recovery_account_order(preferred_account_key) ==
    LET ordered == IF preferred_account_key \in AccountSet
                   THEN <<preferred_account_key>> ELSE <<>>
    IN ordered \o SelectSeq(ACCOUNT_KEYS, LAMBDA key : key # preferred_account_key)

\* ------------------------------------------------------------------------
\* Health snapshot and capacity model (4.1).
\* A snapshot is a record of the consulted fields; an *_isdict flag tells
\* whether the object at that path is a dict, NOT_NUMBER stands for a
\* missing or wrong-typed number.  Rates and ratios are in twentieths.
\* ------------------------------------------------------------------------
NOT_NUMBER == -1000

\* the JSON booleans: bool is a subclass of int, so isinstance(value, (int,
\* float)) accepts them, True > 0 holds and float(True) is 1.0
JSON_TRUE == -1001

JSON_FALSE == -1002

\* a JSON integer above the range of a float, such as 10**400: json.loads
\* returns it as an int, and float(value) raises OverflowError
HUGE_INT == -1003

\* the function raised OverflowError instead of returning a value
OVERFLOW_ERROR == -2000

\* isinstance(value, (int, float))
IsNumber(v) == v # NOT_NUMBER

\* value > 0
Positive(v) ==
    IF v = JSON_TRUE \/ v = HUGE_INT THEN TRUE
    ELSE IF v = JSON_FALSE THEN FALSE
    ELSE v > 0

\* float(value), where one is 1.0 in the unit of the field
Float(v, one) ==
    IF v = JSON_TRUE THEN one
    ELSE IF v = JSON_FALSE THEN 0
    ELSE IF v = HUGE_INT THEN OVERFLOW_ERROR
    ELSE v

\* str(...).lower() on the status / health strings that occur
Lower(str) ==
    CASE str = "READY" -> "ready"
      [] str = "OK" -> "ok"
      [] str = "Tripped" -> "tripped"
      [] str = "Degraded" -> "degraded"
      [] OTHER -> str

\* variant: the scheduler's health marks are not consulted
get_available_accounts_KeepTripped(snapshot) ==
    IF ~snapshot.isdict THEN ACCOUNT_KEYS
    ELSE LET ready_accounts ==
                 SelectSeq(ACCOUNT_KEYS, LAMBDA a :
                     \/ Lower(snapshot.status[a]) = ""
                     \/ Lower(snapshot.status[a]) \in {"ready", "ok"})
         IN IF ready_accounts = <<>> THEN <<ACCOUNT_KEYS[1]>>
            ELSE ready_accounts

\* variant: the readiness status is not consulted
get_available_accounts_IgnoreStatus(snapshot) ==
    IF ~snapshot.isdict THEN ACCOUNT_KEYS
    ELSE LET ready_accounts == ACCOUNT_KEYS
             Health(a) == IF snapshot.stats_isdict[a] THEN Lower(snapshot.health[a]) ELSE ""
             non_tripped == SelectSeq(ready_accounts, LAMBDA a : Health(a) # "tripped")
         IN IF ready_accounts = <<>> THEN <<ACCOUNT_KEYS[1]>>
            ELSE IF ~(snapshot.sched_isdict /\ snapshot.accounts_isdict) THEN ready_accounts
            ELSE IF non_tripped # <<>> THEN non_tripped
            ELSE <<ready_accounts[1]>>

get_available_accounts(snapshot) ==
    IF ~snapshot.isdict THEN ACCOUNT_KEYS
    ELSE LET ready_accounts ==
                 SelectSeq(ACCOUNT_KEYS, LAMBDA a :
                     \/ Lower(snapshot.status[a]) = ""
                     \/ Lower(snapshot.status[a]) \in {"ready", "ok"})
             Health(a) == IF snapshot.stats_isdict[a] THEN Lower(snapshot.health[a]) ELSE ""
             non_tripped == SelectSeq(ready_accounts, LAMBDA a : Health(a) # "tripped")
         IN IF ready_accounts = <<>> THEN <<ACCOUNT_KEYS[1]>>
            ELSE IF ~(snapshot.sched_isdict /\ snapshot.accounts_isdict) THEN ready_accounts
            ELSE IF non_tripped # <<>> THEN non_tripped
            ELSE <<ready_accounts[1]>>

\* in words
get_raw_budget(snapshot, account_key, mode) ==
    IF ~snapshot.isdict THEN MODE_DEFAULT_BUDGET[mode]
    ELSE IF ~snapshot.sched_isdict THEN MODE_DEFAULT_BUDGET[mode]
    ELSE IF ~snapshot.budgets_isdict THEN MODE_DEFAULT_BUDGET[mode]
    ELSE LET value == snapshot.per_account_budget[account_key][mode]
             global_value == snapshot.global_budget[mode]
         IN IF /\ snapshot.per_account_isdict
               /\ snapshot.per_account_budget_isdict[account_key]
               /\ IsNumber(value) /\ Positive(value)
            THEN Float(value, 1)
            ELSE IF IsNumber(global_value) /\ Positive(global_value) THEN Float(global_value, 1)
            ELSE MODE_DEFAULT_BUDGET[mode]

\* variant: the product of the two factors is returned without the last clamp
get_reliability_factor_NoLastClamp(snapshot, account_key, mode) ==
    IF ~snapshot.isdict THEN BUDGET_SCALE
    ELSE IF ~snapshot.sched_isdict THEN BUDGET_SCALE
    ELSE IF ~snapshot.accounts_isdict THEN BUDGET_SCALE
    ELSE IF ~snapshot.stats_isdict[account_key] THEN BUDGET_SCALE
    ELSE LET success_rate == snapshot.success_rate[account_key][mode]
             retry_rate == snapshot.retry_rate[account_key][mode]
             timeout_rate == snapshot.timeout_rate[account_key][mode]
             success == IF IsNumber(success_rate) THEN Float(success_rate, 20) ELSE 20
             retry == IF IsNumber(retry_rate) THEN Float(retry_rate, 20) ELSE 0
             timeout == IF IsNumber(timeout_rate) THEN Float(timeout_rate, 20) ELSE 0
             rate_factor == clamp(20 * success - 9 * retry - 16 * timeout, 160, 420)
             health == Lower(snapshot.health[account_key])
             health_factor == IF health = "degraded" THEN 16
                              ELSE IF health = "tripped" THEN 7 ELSE 20
         IN IF OVERFLOW_ERROR \in {success, retry, timeout} THEN OVERFLOW_ERROR
            ELSE rate_factor * health_factor

\* in 1/8000: rate factor in 1/400 times health factor in 1/20
get_reliability_factor(snapshot, account_key, mode) ==
    IF ~snapshot.isdict THEN BUDGET_SCALE
    ELSE IF ~snapshot.sched_isdict THEN BUDGET_SCALE
    ELSE IF ~snapshot.accounts_isdict THEN BUDGET_SCALE
    ELSE IF ~snapshot.stats_isdict[account_key] THEN BUDGET_SCALE
    ELSE LET success_rate == snapshot.success_rate[account_key][mode]
             retry_rate == snapshot.retry_rate[account_key][mode]
             timeout_rate == snapshot.timeout_rate[account_key][mode]
             success == IF IsNumber(success_rate) THEN Float(success_rate, 20) ELSE 20
             retry == IF IsNumber(retry_rate) THEN Float(retry_rate, 20) ELSE 0
             timeout == IF IsNumber(timeout_rate) THEN Float(timeout_rate, 20) ELSE 0
             rate_factor == clamp(20 * success - 9 * retry - 16 * timeout, 160, 420)
             health == Lower(snapshot.health[account_key])
             health_factor == IF health = "degraded" THEN 16
                              ELSE IF health = "tripped" THEN 7 ELSE 20
         IN IF OVERFLOW_ERROR \in {success, retry, timeout} THEN OVERFLOW_ERROR
            ELSE clamp(rate_factor * health_factor, 2800, 8400)

\* variant: the product is used without the floor
effective_budget_NoFloor(snapshot, account_key, mode) ==
    IF OVERFLOW_ERROR \in {get_raw_budget(snapshot, account_key, mode),
                           get_reliability_factor(snapshot, account_key, mode)}
    THEN OVERFLOW_ERROR
    ELSE get_raw_budget(snapshot, account_key, mode)
            * get_reliability_factor(snapshot, account_key, mode)

\* max(120.0, raw_budget * reliability), in 1/8000 word
effective_budget(snapshot, account_key, mode) ==
    Only({IF OVERFLOW_ERROR \in {raw_budget, reliability} THEN OVERFLOW_ERROR
          ELSE Only({Max2(EFFECTIVE_BUDGET_FLOOR * BUDGET_SCALE, product) :
                       product \in {raw_budget * reliability}}) :
            raw_budget \in {get_raw_budget(snapshot, account_key, mode)},
            reliability \in {get_reliability_factor(snapshot, account_key, mode)}})

\* in milliseconds
get_system_penalty_seconds(snapshot, account_count) ==
    IF account_count <= 1 \/ ~snapshot.isdict THEN 0
    ELSE IF ~snapshot.sched_isdict THEN 0
    ELSE IF ~snapshot.rolling_isdict THEN 0
    ELSE LET success_ratio_value == IF IsNumber(snapshot.success_ratio)
                                    THEN Float(snapshot.success_ratio, 20) ELSE 20
             fallback_rate_value == IF IsNumber(snapshot.fallback_rate)
                                    THEN Float(snapshot.fallback_rate, 20) ELSE 0
             success_ratio == clamp(success_ratio_value, 0, 20)
             fallback_rate == clamp(fallback_rate_value, 0, 20)
         IN IF OVERFLOW_ERROR \in {success_ratio_value, fallback_rate_value}
            THEN OVERFLOW_ERROR
            ELSE (fallback_rate * 200 + (20 - success_ratio) * 300) * (account_count - 1)

\* ------------------------------------------------------------------------
\* Account plan selector (4.2)
\* ------------------------------------------------------------------------
RECURSIVE FracLess(_, _, _, _)
\* a/b < c/d for a, c >= 0 and b, d > 0, without forming the cross products
FracLess(a, b, c, d) ==
    IF a \div b # c \div d THEN a \div b < c \div d
    ELSE IF c % d = 0 THEN FALSE
    ELSE IF a % b = 0 THEN TRUE
    ELSE FracLess(d, c % d, b, a % b)

\* an estimate is ms + num/den milliseconds, 0 <= num < den
Estimate(total_words, capacity, mode, count, snapshot) ==
    LET n == total_words * MODE_TARGET_SECONDS[mode] * BUDGET_SCALE
        r0 == n % capacity
        r1 == (r0 * 10) % capacity
        r2 == (r1 * 10) % capacity
        r3 == (r2 * 10) % capacity
        whole == (n \div capacity) * 1000 + ((r0 * 10) \div capacity) * 100
                 + ((r1 * 10) \div capacity) * 10 + ((r2 * 10) \div capacity)
    IN [ms |-> whole + (count - 1) * MODE_COORDINATION_PENALTY_MS[mode]
                  + get_system_penalty_seconds(snapshot, count),
        num |-> r3, den |-> capacity]

\* variant: the plain comparison estimated < best_estimated
BeatsByMargin_NoMargin(estimated, best_estimated) ==
    IF estimated.ms < best_estimated.ms THEN TRUE
    ELSE IF estimated.ms > best_estimated.ms THEN FALSE
    ELSE FracLess(estimated.num, estimated.den, best_estimated.num, best_estimated.den)

\* estimated + 0.9 < best_estimated
BeatsByMargin(estimated, best_estimated) ==
    LET a == estimated.ms + HYSTERESIS_MS
    IN IF a < best_estimated.ms THEN TRUE
       ELSE IF a > best_estimated.ms THEN FALSE
       ELSE FracLess(estimated.num, estimated.den, best_estimated.num, best_estimated.den)

RECURSIVE InsertDesc(_, _)
\* stable insertion: behind every profile whose budget is not smaller
InsertDesc(sorted, profile) ==
    IF sorted = <<>> THEN <<profile>>
    ELSE IF Head(sorted).budget >= profile.budget
         THEN <<Head(sorted)>> \o InsertDesc(Tail(sorted), profile)
         ELSE <<profile>> \o sorted

RECURSIVE SortProfiles(_, _)
\* profiles.sort(key=budget, reverse=True): stable, descending
SortProfiles(profiles, sorted) ==
    IF profiles = <<>> THEN sorted
    ELSE Only({SortProfiles(Tail(profiles), inserted) :
                 inserted \in {InsertDesc(sorted, Head(profiles))}})

RECURSIVE SumBudgets(_)
SumBudgets(profiles) ==
    IF profiles = <<>> THEN 0 ELSE Head(profiles).budget + SumBudgets(Tail(profiles))

RECURSIVE PlanLoop(_, _, _, _, _, _, _)
\* the for loop over count = 1..max_candidate_count
PlanLoop(count, max_candidate_count, profiles, total_words, mode, snapshot, best) ==
    IF count > max_candidate_count THEN best
    ELSE LET selected == SubSeq(profiles, 1, count)
             Candidate(capacity, estimated) ==
                 [count |-> count, estimated |-> estimated,
                  accounts |-> [k \in 1..count |-> selected[k].key],
                  capacity |-> capacity]
             Estimated(capacity) ==
                 Only({Candidate(capacity, estimated) :
                         estimated \in {Estimate(total_words, capacity, mode, count, snapshot)}})
             candidate ==
                 Only({Estimated(capacity) :
                         capacity \in {Max2(CAPACITY_FLOOR * BUDGET_SCALE, SumBudgets(selected))}})
         IN Only({PlanLoop(count + 1, max_candidate_count, profiles, total_words, mode, snapshot, kept) :
                    kept \in {Only({IF count = 1 THEN c
                                    ELSE IF BeatsByMargin(c.estimated, best.estimated) THEN c
                                    ELSE best : c \in {candidate}})}})

\* variant: the profiles are left in the order of the available accounts
PlanProfiles_Unsorted(mode, snapshot) ==
    LET available_accounts == get_available_accounts(snapshot)
    IN [k \in 1..Len(available_accounts) |->
           [key |-> available_accounts[k],
            budget |-> effective_budget(snapshot, available_accounts[k], mode)]]

\* the (account, effective budget) profiles of the available accounts,
\* largest budget first
PlanProfiles(mode, snapshot) ==
    LET Profiles(available_accounts) ==
            [k \in 1..Len(available_accounts) |->
                [key |-> available_accounts[k],
                 budget |-> effective_budget(snapshot, available_accounts[k], mode)]]
        Listed(available_accounts) ==
            Only({SortProfiles(profiles, <<>>) : profiles \in {Profiles(available_accounts)}})
    IN Only({Listed(available_accounts) :
               available_accounts \in {get_available_accounts(snapshot)}})

\* variant: every available account is a candidate, whatever the word total
choose_account_plan_NoWordCap(total_words, mode, snapshot) ==
    LET default == [count |-> 1, estimated |-> [ms |-> 0, num |-> 0, den |-> 1],
                    accounts |-> <<ACCOUNT_KEYS[1]>>,
                    capacity |-> MODE_DEFAULT_BUDGET[mode] * BUDGET_SCALE]
        profiles == PlanProfiles(mode, snapshot)
        max_candidate_count == Len(profiles)
    IN IF total_words <= 0 THEN default
       ELSE IF profiles = <<>>
            THEN [default EXCEPT !.estimated =
                     Estimate(total_words, MODE_DEFAULT_BUDGET[mode] * BUDGET_SCALE, mode, 1, snapshot)]
            ELSE PlanLoop(1, max_candidate_count, profiles, total_words, mode, snapshot,
                          [count |-> 1, estimated |-> [ms |-> 0, num |-> 0, den |-> 1],
                           accounts |-> <<profiles[1].key>>, capacity |-> profiles[1].budget])

choose_account_plan(total_words, mode, snapshot) ==
    LET default == [count |-> 1, estimated |-> [ms |-> 0, num |-> 0, den |-> 1],
                    accounts |-> <<ACCOUNT_KEYS[1]>>,
                    capacity |-> MODE_DEFAULT_BUDGET[mode] * BUDGET_SCALE]
        max_count_by_words == Max2(1, total_words \div MODE_MIN_WORDS_PER_ACCOUNT[mode])
        max_candidate_count(profiles) == Min2(Len(profiles), max_count_by_words)
        Best(profiles) ==
            IF profiles = <<>>
            THEN [default EXCEPT !.estimated =
                     Estimate(total_words, MODE_DEFAULT_BUDGET[mode] * BUDGET_SCALE, mode, 1, snapshot)]
            ELSE PlanLoop(1, max_candidate_count(profiles), profiles, total_words, mode, snapshot,
                          [count |-> 1, estimated |-> [ms |-> 0, num |-> 0, den |-> 1],
                           accounts |-> <<profiles[1].key>>, capacity |-> profiles[1].budget])
    IN IF total_words <= 0 THEN default
       ELSE Only({Best(profiles) : profiles \in {PlanProfiles(mode, snapshot)}})

\* ------------------------------------------------------------------------
\* Bounds of the model and the inputs drawn from them
\* ------------------------------------------------------------------------
\* longest queue of eligible work items
MaxItems == 3

\* a remote output for a chunk of up to RichLen items is drawn from the full
\* family of shapes, for a longer chunk from the three basic shapes
RichLen == 3

\* item sizes: three small items fit one account in every mode; the large
\* one is above the dual ceiling of 760 words per account and above the
\* smaller request cap
WordChoices == {200, 800}

\* word count of the items of the runs against the rich remote
SmallItemWords == 200

\* the shortest chunk whose bisection reaches depth 6 with two items left,
\* and the size of its items
DeepItems == 65

DeepItemWords == 10

ItemLimitChoices == {1, 3}

WordLimitChoices == {500, 2200}

CliModes == {"dual", "standard"}

Pipelines == {"docx", "pptx"}

AbsentSnapshot ==
    [isdict |-> TRUE,
     status |-> [a \in AccountSet |-> ""],
     sched_isdict |-> FALSE,
     accounts_isdict |-> FALSE,
     stats_isdict |-> [a \in AccountSet |-> FALSE],
     health |-> [a \in AccountSet |-> ""],
     success_rate |-> [a \in AccountSet |-> [m \in Modes |-> NOT_NUMBER]],
     retry_rate |-> [a \in AccountSet |-> [m \in Modes |-> NOT_NUMBER]],
     timeout_rate |-> [a \in AccountSet |-> [m \in Modes |-> NOT_NUMBER]],
     budgets_isdict |-> FALSE,
     per_account_isdict |-> FALSE,
     per_account_budget_isdict |-> [a \in AccountSet |-> FALSE],
     per_account_budget |-> [a \in AccountSet |-> [m \in Modes |-> NOT_NUMBER]],
     global_budget |-> [m \in Modes |-> NOT_NUMBER],
     rolling_isdict |-> FALSE,
     success_ratio |-> NOT_NUMBER,
     fallback_rate |-> NOT_NUMBER]

\* fetch_health_snapshot returned None
NoSnapshot == [AbsentSnapshot EXCEPT !.isdict = FALSE]

\* every account ready, no scheduler section
ReadySnapshot == [AbsentSnapshot EXCEPT !.status = [a \in AccountSet |-> "ready"]]

\* only acc2 is usable
OneReadySnapshot ==
    [AbsentSnapshot EXCEPT !.status = [a \in AccountSet |-> IF a = "acc2" THEN "READY" ELSE "busy"]]

\* scheduler section present: acc1 tripped, acc2 degraded with poor rates
DegradedSnapshot ==
    [AbsentSnapshot EXCEPT
        !.sched_isdict = TRUE, !.accounts_isdict = TRUE,
        !.stats_isdict = [a \in AccountSet |-> TRUE],
        !.health = [a \in AccountSet |->
                       IF a = "acc1" THEN "tripped" ELSE IF a = "acc2" THEN "Degraded" ELSE "normal"],
        !.success_rate = [a \in AccountSet |-> [m \in Modes |-> IF a = "acc2" THEN 16 ELSE 20]],
        !.retry_rate = [a \in AccountSet |-> [m \in Modes |-> IF a = "acc2" THEN 4 ELSE 0]],
        !.rolling_isdict = TRUE, !.success_ratio = 18, !.fallback_rate = 2]

SnapshotChoices == {NoSnapshot, ReadySnapshot, OneReadySnapshot, DegradedSnapshot}

\* snapshots for the plan selector: every account ready, a scheduler section
\* with per-account budgets, health and the rolling ratios
BudgetChoices == {NOT_NUMBER, 300, 1400}

PlanHealthChoices == {"normal", "Degraded"}

\* <<successRatio, fallbackRate>> in twentieths, or no rolling section
RollingChoices == {<<NOT_NUMBER, NOT_NUMBER>>, <<18, 2>>, <<18, 4>>, <<10, 10>>}

PlanSnapshot(budget, health, rolling) ==
    [AbsentSnapshot EXCEPT
        !.status = [a \in AccountSet |-> "ready"],
        !.sched_isdict = TRUE, !.accounts_isdict = TRUE,
        !.stats_isdict = [a \in AccountSet |-> TRUE],
        !.health = health,
        !.budgets_isdict = TRUE, !.per_account_isdict = TRUE,
        !.per_account_budget_isdict = [a \in AccountSet |-> TRUE],
        !.per_account_budget = [a \in AccountSet |-> [m \in Modes |-> budget[a]]],
        !.rolling_isdict = (rolling[1] # NOT_NUMBER),
        !.success_ratio = rolling[1], !.fallback_rate = rolling[2]]

PlanSnapshots ==
    SnapshotChoices \cup
    {PlanSnapshot(budget, health, rolling) :
        budget \in [AccountSet -> BudgetChoices],
        health \in [AccountSet -> PlanHealthChoices],
        rolling \in RollingChoices}

\* snapshots for the capacity model: the fields of one account's budget and
\* reliability, the same for every account and mode
RawBudgetChoices == {NOT_NUMBER, 0, 100, 300, 1400}

GlobalBudgetChoices == {NOT_NUMBER, 800}

\* "nostats": the account has no entry under scheduler.accounts
StatsHealthChoices == {"nostats", "normal", "Degraded", "Tripped"}

\* <<success, retry, timeout>> rates in twentieths
RateChoices == {NOT_NUMBER, 10, 22} \X {NOT_NUMBER, 8} \X {NOT_NUMBER, 5}

BudgetSnapshot(budget, global, health, rates) ==
    [AbsentSnapshot EXCEPT
        !.sched_isdict = TRUE, !.accounts_isdict = TRUE,
        !.stats_isdict = [a \in AccountSet |-> health # "nostats"],
        !.health = [a \in AccountSet |-> IF health = "nostats" THEN "" ELSE health],
        !.success_rate = [a \in AccountSet |-> [m \in Modes |-> rates[1]]],
        !.retry_rate = [a \in AccountSet |-> [m \in Modes |-> rates[2]]],
        !.timeout_rate = [a \in AccountSet |-> [m \in Modes |-> rates[3]]],
        !.budgets_isdict = TRUE, !.per_account_isdict = TRUE,
        !.per_account_budget_isdict = [a \in AccountSet |-> TRUE],
        !.per_account_budget = [a \in AccountSet |-> [m \in Modes |-> budget]],
        !.global_budget = [m \in Modes |-> global]]

BudgetSnapshots ==
    {NoSnapshot, AbsentSnapshot} \cup
    {BudgetSnapshot(budget, global, health, rates) :
        budget \in RawBudgetChoices, global \in GlobalBudgetChoices,
        health \in StatsHealthChoices, rates \in RateChoices}

\* snapshots for the availability filter: a readiness status and a health
\* mark per account, under each shape of the scheduler section
StatusChoices == {"", "READY", "ok", "busy"}

SchedulerShapes == {"absent", "noaccounts", "accounts"}

AvailabilitySnapshot(status, shape, health) ==
    [AbsentSnapshot EXCEPT
        !.status = status,
        !.sched_isdict = (shape # "absent"),
        !.accounts_isdict = (shape = "accounts"),
        !.stats_isdict = [a \in AccountSet |-> shape = "accounts" /\ health[a] # "nostats"],
        !.health = [a \in AccountSet |->
                       IF shape = "accounts" /\ health[a] # "nostats" THEN health[a] ELSE ""]]

AvailabilitySnapshots ==
    {NoSnapshot} \cup
    {AvailabilitySnapshot(status, shape, health) :
        status \in [AccountSet -> StatusChoices],
        shape \in SchedulerShapes,
        health \in [AccountSet -> StatsHealthChoices]}

\* snapshots for the plan selector under every readiness status: scheduler
\* health reported, each account normal or tripped
ReadinessHealthChoices == {"normal", "Tripped"}

ReadinessSnapshots ==
    {AvailabilitySnapshot(status, "accounts", health) :
        status \in [AccountSet -> StatusChoices],
        health \in [AccountSet -> ReadinessHealthChoices]}

\* snapshots of every shape for the capacity model.  depth is the number of
\* nested objects on the path to the fields that are dicts: 0 for a snapshot
\* that is not a dict.  A field is absent or not a number (NOT_NUMBER), a
\* boolean, an integer above the float range, non-positive, or valid.
BudgetFieldChoices == {NOT_NUMBER, JSON_TRUE, JSON_FALSE, HUGE_INT, 0, 300}

BudgetShape(depth, value, global) ==
    [AbsentSnapshot EXCEPT
        !.isdict = (depth >= 1), !.sched_isdict = (depth >= 2),
        !.budgets_isdict = (depth >= 3), !.per_account_isdict = (depth >= 4),
        !.per_account_budget_isdict = [a \in AccountSet |-> depth >= 5],
        !.per_account_budget =
            [a \in AccountSet |-> [m \in Modes |-> IF depth >= 5 THEN value ELSE NOT_NUMBER]],
        !.global_budget = [m \in Modes |-> IF depth >= 3 THEN global ELSE NOT_NUMBER]]

BudgetShapes ==
    {BudgetShape(depth, value, global) :
        depth \in 0..5, value \in BudgetFieldChoices, global \in BudgetFieldChoices}

\* <<success, retry, timeout>> rates in twentieths
RateFieldChoices ==
    {NOT_NUMBER, JSON_TRUE, JSON_FALSE, HUGE_INT, 0, 10, 22}
        \X {NOT_NUMBER, JSON_TRUE, HUGE_INT, 8} \X {NOT_NUMBER, JSON_TRUE, 5}

\* "None" is str(None), the health or status of a JSON null
HealthFieldChoices == {"", "ok", "Degraded", "Tripped", "None"}

ReliabilityShape(depth, rates, health) ==
    [AbsentSnapshot EXCEPT
        !.isdict = (depth >= 1), !.sched_isdict = (depth >= 2),
        !.accounts_isdict = (depth >= 3),
        !.stats_isdict = [a \in AccountSet |-> depth >= 4],
        !.health = [a \in AccountSet |-> IF depth >= 4 THEN health ELSE ""],
        !.success_rate =
            [a \in AccountSet |-> [m \in Modes |-> IF depth >= 4 THEN rates[1] ELSE NOT_NUMBER]],
        !.retry_rate =
            [a \in AccountSet |-> [m \in Modes |-> IF depth >= 4 THEN rates[2] ELSE NOT_NUMBER]],
        !.timeout_rate =
            [a \in AccountSet |-> [m \in Modes |-> IF depth >= 4 THEN rates[3] ELSE NOT_NUMBER]]]

ReliabilityShapes ==
    {ReliabilityShape(depth, rates, health) :
        depth \in 0..4, rates \in RateFieldChoices, health \in HealthFieldChoices}

\* <<successRatio, fallbackRate>> in twentieths
RatioFieldChoices ==
    {NOT_NUMBER, JSON_TRUE, JSON_FALSE, HUGE_INT, -5, 10, 30}
        \X {NOT_NUMBER, JSON_TRUE, JSON_FALSE, HUGE_INT, 4}

PenaltyShape(depth, ratios) ==
    [AbsentSnapshot EXCEPT
        !.isdict = (depth >= 1), !.sched_isdict = (depth >= 2),
        !.rolling_isdict = (depth >= 3),
        !.success_ratio = IF depth >= 3 THEN ratios[1] ELSE NOT_NUMBER,
        !.fallback_rate = IF depth >= 3 THEN ratios[2] ELSE NOT_NUMBER]

PenaltyShapes ==
    {PenaltyShape(depth, ratios) : depth \in 0..3, ratios \in RatioFieldChoices}

StatusFieldChoices == {"", "ready", "busy", "None"}

StatusShapes ==
    {AvailabilitySnapshot(status, "absent", [a \in AccountSet |-> "nostats"]) :
        status \in [AccountSet -> StatusFieldChoices]}

\* queues and request limits for the batch chunker called on its own; the
\* largest item is above every word cap
TakeWordChoices == {200, 600, 3000}

TakeItemLimitChoices == {0, 1, 2, 4}

TakeWordLimitChoices == {500, 1000, 2200}

\* responses handed to the parser called on its own: every text of at most
\* MaxTextLen tokens over two words, the delimiter in both cases and the
\* paragraph break, and the echo of the payload of every chunk
MaxTextLen == 5

ParseTokens == {DELIM, DELIM_UPPER, PARA, 1, 2}

\* total words of a batch handed to the plan selector
PlanWordChoices == {0, 50, 200, 279, 280, 560, 600, 840, 1000, 1500, 2200}

RECURSIVE SeqsOfLen(_, _)
\* the sequences over S of length exactly n
SeqsOfLen(S, n) ==
    IF n = 0 THEN {<<>>}
    ELSE {Append(q, x) : q \in SeqsOfLen(S, n - 1), x \in S}

\* the sequences over S of length at most n
SeqsUpTo(S, n) == {SubSeq(q, 1, k) : q \in SeqsOfLen(S, n), k \in 0..n}

\* ------------------------------------------------------------------------
\* Remote outputs.  The remote answers a chunk with the items' outputs in
\* order; it may separate two outputs by the delimiter, by a paragraph
\* break or not at all, and may put a paragraph break or a delimiter inside
\* one item's output.
\* ------------------------------------------------------------------------
BodyChoices(i) == {<<i>>, <<i, PARA, i>>}

GapChoices == {<<DELIM>>, <<PARA>>, <<>>}

RECURSIVE RichOutputs(_)
RichOutputs(ids) ==
    IF Len(ids) = 1 THEN BodyChoices(ids[1])
    ELSE {b \o g \o rest : b \in BodyChoices(ids[1]), g \in GapChoices,
                           rest \in RichOutputs(Tail(ids))}

\* the echo of the payload with every delimiter kept
CleanOutput(ids) == FlattenSeq([k \in 1..Len(ids) |-> <<DELIM, ids[k]>>])

\* every output under one delimiter
MergedOutput(ids) == <<DELIM_UPPER>> \o [k \in 1..Len(ids) |-> ids[k]]

RemoteOutputs(profile, ids) ==
    IF profile = "merging" THEN {MergedOutput(ids)}
    ELSE IF profile = "rich" /\ Len(ids) <= RichLen
    THEN {<<DELIM>> \o t : t \in RichOutputs(ids)}
         \cup {MergedOutput(ids), <<PARA>>}
         \cup (IF Len(ids) = 1 THEN {<<DELIM, ids[1], DELIM, ids[1]>>} ELSE {})
    ELSE {CleanOutput(ids), MergedOutput(ids)}

\* what one account's entry of a response can be: no entry for the account
\* ("missing"), an entry without the success field ("nofield"), or a text
AccountOutcomes(profile, ids) ==
    {[kind |-> "missing", text |-> <<>>], [kind |-> "nofield", text |-> <<>>]}
    \cup {[kind |-> "ok", text |-> t] : t \in RemoteOutputs(profile, ids)}

\* ------------------------------------------------------------------------
\* State
\* ------------------------------------------------------------------------
VARIABLES
    pipeline,                \* "docx" or "pptx": which script runs
    remote,                  \* the remote service: "basic", "rich" or "merging" output shapes
    dry_run,                 \* args.dry_run
    mode,                    \* the paraphrase mode
    items,                   \* the eligible work items: their word counts
    max_items_per_request,   \* args.max_items_per_request
    max_words_per_request,   \* args.max_words_per_request
    pc,                      \* position of main / run_step_2_paraphrase
    exit_code,               \* return value of main, -1 while running
    error,                   \* the exception that ended the run, "" if none
    request_count,
    updated_count,
    cursor,                  \* DOCX: index of the next pending item (0-based)
    remaining,               \* PPTX: deque of the pending item ids
    scheduler_snapshot,
    fetch_count,             \* history: calls of fetch_health_snapshot made by the step
    batch,                   \* ids of the batch of this iteration
    selected_accounts,
    trimmed_for_single_account, \* the guardrail trimmed the batch of this iteration
    account_chunks,
    chunk_index,             \* position of the chunk loop in account_chunks
    parts,                   \* segments of the chunk being reconciled
    stack,                   \* call stack of recover_account_chunk_parts
    errors,                  \* errors of request_chunk_output_with_fallback
    text,                    \* text of each item's paragraph
    writes,                  \* number of write-backs per item
    writer_called,           \* write_output_docx / write_output_pptx was called
    sent,                    \* history: the batches sent, concatenated
    attempts,                \* history: account attempts of the latest recovery call
    recovery_calls,          \* history: recovery calls made for the current chunk
    leaf,                    \* history: the segment each item was resolved to
    args,                    \* a function called on its own: its name and arguments
    ret                      \* and the value it returned

inputs == <<pipeline, remote, dry_run, mode, items, max_items_per_request, max_words_per_request>>

queue_vars == <<cursor, remaining, scheduler_snapshot, fetch_count, request_count>>

batch_vars == <<batch, selected_accounts, trimmed_for_single_account, account_chunks>>

call_vars == <<args, ret>>

recovery_vars == <<stack, errors, attempts, recovery_calls, leaf>>

paragraph_vars == <<text, writes, updated_count>>

vars == <<inputs, pc, exit_code, error, queue_vars, batch_vars, chunk_index, parts,
          recovery_vars, paragraph_vars, writer_called, sent, call_vars>>

ItemIds == 1..Len(items)

\* the pending items, whichever representation the pipeline uses
Pending ==
    IF pipeline = "docx" THEN [k \in 1..(Len(items) - cursor) |-> cursor + k]
    ELSE remaining

CurrentChunk == account_chunks[chunk_index]

\* the original paragraph text of item i
OriginalText(i) == <<i>>

\* the locals of main and run_step_2_paraphrase before the first step
InitLocals ==
    /\ exit_code = -1
    /\ error = ""
    /\ request_count = 0
    /\ updated_count = 0
    /\ cursor = 0
    /\ remaining = <<>>
    /\ scheduler_snapshot = NoSnapshot
    /\ fetch_count = 0
    /\ trimmed_for_single_account = FALSE
    /\ account_chunks = <<>>
    /\ chunk_index = 0
    /\ parts = <<>>
    /\ stack = <<>>
    /\ errors = <<>>
    /\ text = [i \in 1..Len(items) |-> OriginalText(i)]
    /\ writes = [i \in 1..Len(items) |-> 0]
    /\ writer_called = FALSE
    /\ sent = <<>>
    /\ attempts = <<>>
    /\ recovery_calls = 0
    /\ leaf = [i \in 1..Len(items) |-> <<>>]

\* everything but the inputs of a run, at the entry of main's first step
InitRun ==
    /\ pc = "step1"
    /\ batch = <<>>
    /\ selected_accounts = <<>>
    /\ args = <<>>
    /\ ret = <<>>
    /\ InitLocals

\* a remote with the basic output shapes, every combination of the inputs
Init ==
    /\ pipeline \in Pipelines
    /\ remote = "basic"
    /\ dry_run \in BOOLEAN
    /\ mode \in CliModes
    /\ items \in SeqsUpTo(WordChoices, MaxItems)
    /\ max_items_per_request \in ItemLimitChoices
    /\ max_words_per_request \in WordLimitChoices
    /\ InitRun

\* a remote with the full family of output shapes, the request limits at
\* their command-line defaults and items of equal size
InitRich ==
    /\ pipeline \in Pipelines
    /\ remote = "rich"
    /\ dry_run \in BOOLEAN
    /\ mode \in CliModes
    /\ items \in {[k \in 1..n |-> SmallItemWords] : n \in 1..MaxItems}
    /\ max_items_per_request = (IF pipeline = "docx" THEN 80 ELSE 120)
    /\ max_words_per_request = (IF pipeline = "docx" THEN 2200 ELSE 2400)
    /\ InitRun

\* a remote that merges every chunk's outputs under one delimiter, and one
\* queue long enough for the bisection of its chunk to reach the depth limit
InitDeep ==
    /\ pipeline \in Pipelines
    /\ remote = "merging"
    /\ dry_run = FALSE
    /\ mode = "standard"
    /\ items = [k \in 1..DeepItems |-> DeepItemWords]
    /\ max_items_per_request = (IF pipeline = "docx" THEN 80 ELSE 120)
    /\ max_words_per_request = (IF pipeline = "docx" THEN 2200 ELSE 2400)
    /\ InitRun

\* variant: main reports the failure and falls through to the next step
Raise_FallThrough(kind) ==
    /\ pc' = "step3"
    /\ exit_code' = exit_code
    /\ error' = kind

\* an exception leaves run_step_2_paraphrase and main returns 1
Raise(kind) ==
    /\ pc' = "done"
    /\ exit_code' = 1
    /\ error' = kind

\* ------------------------------------------------------------------------
\* Single-account guardrail of run_step_2_paraphrase
\* ------------------------------------------------------------------------
\* MODE_MAX_WORDS_PER_ACCOUNT.get(mode, max_words_per_request)
MaxSingleAccountWords(m, max_words) ==
    IF m \in DOMAIN MODE_MAX_WORDS_PER_ACCOUNT THEN MODE_MAX_WORDS_PER_ACCOUNT[m] ELSE max_words

RECURSIVE TrimCursor(_, _, _, _, _)
\* DOCX: batch.pop(); batch_words -= moved.word_count; cursor -= 1
TrimCursor(itm, b, batch_words, idx, max_single) ==
    IF Len(b) > 1 /\ batch_words > max_single
    THEN TrimCursor(itm, SubSeq(b, 1, Len(b) - 1), batch_words - itm[b[Len(b)]],
                    idx - 1, max_single)
    ELSE [batch |-> b, batch_words |-> batch_words, idx |-> idx]

RECURSIVE TrimDeque(_, _, _, _, _)
\* PPTX: moved = batch.pop(); ...; remaining.appendleft(moved)
TrimDeque(itm, b, batch_words, rem, max_single) ==
    IF Len(b) > 1 /\ batch_words > max_single
    THEN TrimDeque(itm, SubSeq(b, 1, Len(b) - 1), batch_words - itm[b[Len(b)]],
                   <<b[Len(b)]>> \o rem, max_single)
    ELSE [batch |-> b, batch_words |-> batch_words, remaining |-> rem]

RECURSIVE TrimCursor_ToEmpty(_, _, _, _, _)
\* variant: the trimming loop runs while len(batch) > 0
TrimCursor_ToEmpty(itm, b, batch_words, idx, max_single) ==
    IF Len(b) > 0 /\ batch_words > max_single
    THEN TrimCursor_ToEmpty(itm, SubSeq(b, 1, Len(b) - 1), batch_words - itm[b[Len(b)]],
                            idx - 1, max_single)
    ELSE [batch |-> b, batch_words |-> batch_words, idx |-> idx]

\* variant: the batch is measured against the request's word cap
GuardApplies_RequestCap(plan, b, batch_words, m, max_words) ==
    /\ Len(plan.accounts) = 1
    /\ Len(b) > 1
    /\ batch_words > max_words

GuardApplies(plan, b, batch_words, m, max_words) ==
    /\ Len(plan.accounts) = 1
    /\ Len(b) > 1
    /\ batch_words > MaxSingleAccountWords(m, max_words)

\* variant: the cursor is not moved back for the items the guardrail trimmed
PrepareBatchDocx_NoRewind(snap) ==
    LET r == take_request_batch(items, cursor, max_items_per_request, max_words_per_request)
        plan == choose_account_plan(r.total_words, mode, snap)
        guard == GuardApplies(plan, r.batch, r.total_words, mode, max_words_per_request)
        t == IF guard
             THEN TrimCursor(items, r.batch, r.total_words, r.idx,
                             MaxSingleAccountWords(mode, max_words_per_request))
             ELSE [batch |-> r.batch, batch_words |-> r.total_words, idx |-> r.idx]
        final == IF guard THEN choose_account_plan(t.batch_words, mode, snap) ELSE plan
    IN [batch |-> t.batch, cursor |-> r.idx, remaining |-> remaining, plan |-> final, trimmed |-> guard]

\* variant: the guardrail may trim the batch down to no item
PrepareBatchDocx_TrimToEmpty(snap) ==
    LET Trimmed(t, guard, plan) ==
            [batch |-> t.batch, cursor |-> t.idx, remaining |-> remaining,
             plan |-> IF guard THEN choose_account_plan(t.batch_words, mode, snap) ELSE plan,
             trimmed |-> guard]
        Guarded(r, plan, guard) ==
            Only({Trimmed(t, guard, plan) :
                    t \in {IF guard
                           THEN TrimCursor_ToEmpty(items, r.batch, r.total_words, r.idx,
                                                   MaxSingleAccountWords(mode, max_words_per_request))
                           ELSE [batch |-> r.batch, batch_words |-> r.total_words,
                                 idx |-> r.idx]}})
        Planned(r, plan) ==
            Only({Guarded(r, plan, guard) :
                    guard \in {GuardApplies(plan, r.batch, r.total_words, mode,
                                            max_words_per_request)}})
        Taken(r) == Only({Planned(r, plan) :
                            plan \in {choose_account_plan(r.total_words, mode, snap)}})
    IN Only({Taken(r) :
               r \in {take_request_batch(items, cursor, max_items_per_request,
                                         max_words_per_request)}})

\* DOCX: lines 1255-1283 for the snapshot snap
PrepareBatchDocx(snap) ==
    LET Trimmed(t, guard, plan) ==
            [batch |-> t.batch, cursor |-> t.idx, remaining |-> remaining,
             plan |-> IF guard THEN choose_account_plan(t.batch_words, mode, snap) ELSE plan,
             trimmed |-> guard]
        Guarded(r, plan, guard) ==
            Only({Trimmed(t, guard, plan) :
                    t \in {IF guard
                           THEN TrimCursor(items, r.batch, r.total_words, r.idx,
                                           MaxSingleAccountWords(mode, max_words_per_request))
                           ELSE [batch |-> r.batch, batch_words |-> r.total_words,
                                 idx |-> r.idx]}})
        Planned(r, plan) ==
            Only({Guarded(r, plan, guard) :
                    guard \in {GuardApplies(plan, r.batch, r.total_words, mode,
                                            max_words_per_request)}})
        Taken(r) == Only({Planned(r, plan) :
                            plan \in {choose_account_plan(r.total_words, mode, snap)}})
    IN Only({Taken(r) :
               r \in {take_request_batch(items, cursor, max_items_per_request,
                                         max_words_per_request)}})

\* variant: the items the guardrail trimmed are not put back on the deque
PrepareBatchPptx_DropTrimmed(snap) ==
    LET r == take_request_batch_pptx(items, remaining, max_items_per_request, max_words_per_request)
        batch_word_count == SumWords(items, r.batch)
        plan == choose_account_plan(batch_word_count, mode, snap)
        guard == GuardApplies(plan, r.batch, batch_word_count, mode, max_words_per_request)
        t == IF guard
             THEN TrimDeque(items, r.batch, batch_word_count, r.remaining,
                            MaxSingleAccountWords(mode, max_words_per_request))
             ELSE [batch |-> r.batch, batch_words |-> batch_word_count, remaining |-> r.remaining]
        final == IF guard THEN choose_account_plan(t.batch_words, mode, snap) ELSE plan
    IN [batch |-> t.batch, cursor |-> cursor, remaining |-> r.remaining, plan |-> final, trimmed |-> guard]

\* PPTX: lines 1174-1205 for the snapshot snap
PrepareBatchPptx(snap) ==
    LET Trimmed(t, guard, plan) ==
            [batch |-> t.batch, cursor |-> cursor, remaining |-> t.remaining,
             plan |-> IF guard THEN choose_account_plan(t.batch_words, mode, snap) ELSE plan,
             trimmed |-> guard]
        Guarded(r, batch_word_count, plan, guard) ==
            Only({Trimmed(t, guard, plan) :
                    t \in {IF guard
                           THEN TrimDeque(items, r.batch, batch_word_count, r.remaining,
                                          MaxSingleAccountWords(mode, max_words_per_request))
                           ELSE [batch |-> r.batch, batch_words |-> batch_word_count,
                                 remaining |-> r.remaining]}})
        Planned(r, batch_word_count, plan) ==
            Only({Guarded(r, batch_word_count, plan, guard) :
                    guard \in {GuardApplies(plan, r.batch, batch_word_count, mode,
                                            max_words_per_request)}})
        Counted(r, batch_word_count) ==
            Only({Planned(r, batch_word_count, plan) :
                    plan \in {choose_account_plan(batch_word_count, mode, snap)}})
        Taken(r) == Only({Counted(r, batch_word_count) :
                            batch_word_count \in {SumWords(items, r.batch)}})
    IN Only({Taken(r) :
               r \in {take_request_batch_pptx(items, remaining, max_items_per_request,
                                              max_words_per_request)}})

\* ------------------------------------------------------------------------
\* recover_account_chunk_parts as an explicit call stack.  A frame is one
\* invocation: "request" while its fallback request is running, "left" /
\* "right" while it waits for that half, "single" while it resolves the
\* items one by one at the depth limit.
\* ------------------------------------------------------------------------
NewFrame(ids, depth) ==
    [ids |-> ids, depth |-> depth, phase |-> "request", acc |-> <<>>, idx |-> 0]

Front(q) == SubSeq(q, 1, Len(q) - 1)

Last(q) == q[Len(q)]

RECURSIVE ReturnParts(_, _, _)
\* an invocation returned result to the frames stk of its callers
ReturnParts(stk, result, lf) ==
    IF stk = <<>> THEN [kind |-> "done", stack |-> <<>>, result |-> result, leaf |-> lf, error |-> ""]
    ELSE LET parent == Last(stk)
             n == Len(parent.ids)
             midpoint == n \div 2
         IN CASE parent.phase = "left" ->
                     [kind |-> "call",
                      stack |-> Front(stk) \o <<[parent EXCEPT !.phase = "right", !.acc = result],
                                                NewFrame(SubSeq(parent.ids, midpoint + 1, n),
                                                         parent.depth + 1)>>,
                      result |-> <<>>, leaf |-> lf, error |-> ""]
              [] parent.phase = "right" ->
                     ReturnParts(Front(stk), parent.acc \o result, lf)
              [] OTHER ->
                     IF parent.idx < n
                     THEN [kind |-> "call",
                           stack |-> Front(stk)
                                     \o <<[parent EXCEPT !.acc = @ \o result, !.idx = @ + 1],
                                          NewFrame(<<parent.ids[parent.idx + 1]>>, parent.depth + 1)>>,
                           result |-> <<>>, leaf |-> lf, error |-> ""]
                     ELSE ReturnParts(Front(stk), parent.acc \o result, lf)

\* variant: the left half is cut at the rounded-up midpoint
AfterRequest_RoundedUpLeft(stk, paraphrased_text, lf) ==
    LET top == Last(stk)
        n == Len(top.ids)
        ps == parse_paraphrase_parts(paraphrased_text, n)
        single == Strip(paraphrased_text)
        midpoint == n \div 2
        raise(kind) == [kind |-> "raise", stack |-> stk, result |-> <<>>, leaf |-> lf, error |-> kind]
    IN IF Len(ps) = n
       THEN ReturnParts(Front(stk), ps,
                        [i \in DOMAIN lf |->
                            IF \E k \in 1..n : top.ids[k] = i
                            THEN ps[CHOOSE k \in 1..n : top.ids[k] = i] ELSE lf[i]])
       ELSE IF n = 1
       THEN IF single = <<>> THEN raise("SingleEmpty")
            ELSE ReturnParts(Front(stk), <<single>>, [lf EXCEPT ![top.ids[1]] = single])
       ELSE IF top.depth >= MAX_RECOVERY_DEPTH
       THEN [kind |-> "call",
             stack |-> Front(stk) \o <<[top EXCEPT !.phase = "single", !.idx = 1],
                                       NewFrame(<<top.ids[1]>>, top.depth + 1)>>,
             result |-> <<>>, leaf |-> lf, error |-> ""]
       ELSE IF midpoint <= 0 \/ midpoint >= n THEN raise("SplitFailed")
       ELSE [kind |-> "call",
             stack |-> Front(stk) \o <<[top EXCEPT !.phase = "left"],
                                       NewFrame(SubSeq(top.ids, 1, (n + 1) \div 2), top.depth + 1)>>,
             result |-> <<>>, leaf |-> lf, error |-> ""]

\* variant: the left recursion is handed the whole chunk
AfterRequest_NoShrink(stk, paraphrased_text, lf) ==
    LET top == Last(stk)
        n == Len(top.ids)
        ps == parse_paraphrase_parts(paraphrased_text, n)
        single == Strip(paraphrased_text)
        midpoint == n \div 2
        raise(kind) == [kind |-> "raise", stack |-> stk, result |-> <<>>, leaf |-> lf, error |-> kind]
    IN IF Len(ps) = n
       THEN ReturnParts(Front(stk), ps,
                        [i \in DOMAIN lf |->
                            IF \E k \in 1..n : top.ids[k] = i
                            THEN ps[CHOOSE k \in 1..n : top.ids[k] = i] ELSE lf[i]])
       ELSE IF n = 1
       THEN IF single = <<>> THEN raise("SingleEmpty")
            ELSE ReturnParts(Front(stk), <<single>>, [lf EXCEPT ![top.ids[1]] = single])
       ELSE IF top.depth >= MAX_RECOVERY_DEPTH
       THEN [kind |-> "call",
             stack |-> Front(stk) \o <<[top EXCEPT !.phase = "single", !.idx = 1],
                                       NewFrame(<<top.ids[1]>>, top.depth + 1)>>,
             result |-> <<>>, leaf |-> lf, error |-> ""]
       ELSE IF midpoint <= 0 \/ midpoint >= n THEN raise("SplitFailed")
       ELSE [kind |-> "call",
             stack |-> Front(stk) \o <<[top EXCEPT !.phase = "left"],
                                       NewFrame(top.ids, top.depth + 1)>>,
             result |-> <<>>, leaf |-> lf, error |-> ""]

\* variant: the chunk is bisected at every depth
AfterRequest_NoDepthCap(stk, paraphrased_text, lf) ==
    LET top == Last(stk)
        n == Len(top.ids)
        ps == parse_paraphrase_parts(paraphrased_text, n)
        single == Strip(paraphrased_text)
        midpoint == n \div 2
        raise(kind) == [kind |-> "raise", stack |-> stk, result |-> <<>>, leaf |-> lf, error |-> kind]
    IN IF Len(ps) = n
       THEN ReturnParts(Front(stk), ps,
                        [i \in DOMAIN lf |->
                            IF \E k \in 1..n : top.ids[k] = i
                            THEN ps[CHOOSE k \in 1..n : top.ids[k] = i] ELSE lf[i]])
       ELSE IF n = 1
       THEN IF single = <<>> THEN raise("SingleEmpty")
            ELSE ReturnParts(Front(stk), <<single>>, [lf EXCEPT ![top.ids[1]] = single])
       ELSE IF midpoint <= 0 \/ midpoint >= n THEN raise("SplitFailed")
       ELSE [kind |-> "call",
             stack |-> Front(stk) \o <<[top EXCEPT !.phase = "left"],
                                       NewFrame(SubSeq(top.ids, 1, midpoint), top.depth + 1)>>,
             result |-> <<>>, leaf |-> lf, error |-> ""]

\* variant: the left half is recovered at the depth of its caller
AfterRequest_SameDepth(stk, paraphrased_text, lf) ==
    LET top == Last(stk)
        n == Len(top.ids)
        ps == parse_paraphrase_parts(paraphrased_text, n)
        single == Strip(paraphrased_text)
        midpoint == n \div 2
        raise(kind) == [kind |-> "raise", stack |-> stk, result |-> <<>>, leaf |-> lf, error |-> kind]
    IN IF Len(ps) = n
       THEN ReturnParts(Front(stk), ps,
                        [i \in DOMAIN lf |->
                            IF \E k \in 1..n : top.ids[k] = i
                            THEN ps[CHOOSE k \in 1..n : top.ids[k] = i] ELSE lf[i]])
       ELSE IF n = 1
       THEN IF single = <<>> THEN raise("SingleEmpty")
            ELSE ReturnParts(Front(stk), <<single>>, [lf EXCEPT ![top.ids[1]] = single])
       ELSE IF top.depth >= MAX_RECOVERY_DEPTH
       THEN [kind |-> "call",
             stack |-> Front(stk) \o <<[top EXCEPT !.phase = "single", !.idx = 1],
                                       NewFrame(<<top.ids[1]>>, top.depth + 1)>>,
             result |-> <<>>, leaf |-> lf, error |-> ""]
       ELSE IF midpoint <= 0 \/ midpoint >= n THEN raise("SplitFailed")
       ELSE [kind |-> "call",
             stack |-> Front(stk) \o <<[top EXCEPT !.phase = "left"],
                                       NewFrame(SubSeq(top.ids, 1, midpoint), top.depth)>>,
             result |-> <<>>, leaf |-> lf, error |-> ""]

\* lines 957-1011: the invocation on top of stk received paraphrased_text
AfterRequest(stk, paraphrased_text, lf) ==
    LET top == Last(stk)
        n == Len(top.ids)
        ps == parse_paraphrase_parts(paraphrased_text, n)
        single == Strip(paraphrased_text)
        midpoint == n \div 2
        raise(kind) == [kind |-> "raise", stack |-> stk, result |-> <<>>, leaf |-> lf, error |-> kind]
    IN IF Len(ps) = n
       THEN ReturnParts(Front(stk), ps,
                        [i \in DOMAIN lf |->
                            IF \E k \in 1..n : top.ids[k] = i
                            THEN ps[CHOOSE k \in 1..n : top.ids[k] = i] ELSE lf[i]])
       ELSE IF n = 1
       THEN IF single = <<>> THEN raise("SingleEmpty")
            ELSE ReturnParts(Front(stk), <<single>>, [lf EXCEPT ![top.ids[1]] = single])
       ELSE IF top.depth >= MAX_RECOVERY_DEPTH
       THEN [kind |-> "call",
             stack |-> Front(stk) \o <<[top EXCEPT !.phase = "single", !.idx = 1],
                                       NewFrame(<<top.ids[1]>>, top.depth + 1)>>,
             result |-> <<>>, leaf |-> lf, error |-> ""]
       ELSE IF midpoint <= 0 \/ midpoint >= n THEN raise("SplitFailed")
       ELSE [kind |-> "call",
             stack |-> Front(stk) \o <<[top EXCEPT !.phase = "left"],
                                       NewFrame(SubSeq(top.ids, 1, midpoint), top.depth + 1)>>,
             result |-> <<>>, leaf |-> lf, error |-> ""]

\* variant: the loop gives up one account early
AllAccountsFailed_OneEarly(errs, order) == Len(errs) >= Len(order) - 1

\* the for loop of request_chunk_output_with_fallback ran out of accounts:
\* control reaches the raise of "Recovery failed across all accounts"
AllAccountsFailed(errs, order) == Len(errs) = Len(order)

\* ------------------------------------------------------------------------
\* Actions: main
\* ------------------------------------------------------------------------
\* [1/4] run_step_1_clean, inside main's try
Step1Clean ==
    /\ pc = "step1"
    /\ \E ok \in BOOLEAN :
          IF ok
          THEN /\ pc' = IF pipeline = "pptx" THEN "preflight" ELSE "step2"
               /\ UNCHANGED <<exit_code, error>>
          ELSE Raise("Step1Failed")
    /\ UNCHANGED <<call_vars, inputs, queue_vars, batch_vars, chunk_index, parts, recovery_vars,
                   paragraph_vars, writer_called, sent>>

\* PPTX only: the reference preflight before the paraphrase step
Preflight ==
    /\ pc = "preflight"
    /\ \E ok \in BOOLEAN :
          IF ok
          THEN pc' = "step2" /\ UNCHANGED <<exit_code, error>>
          ELSE Raise("PreflightFailed")
    /\ UNCHANGED <<call_vars, inputs, queue_vars, batch_vars, chunk_index, parts, recovery_vars,
                   paragraph_vars, writer_called, sent>>

\* [2/4] entry of run_step_2_paraphrase up to the batch loop (or the dry run)
Step2Start ==
    /\ pc = "step2"
    /\ IF items = <<>>
       THEN Raise("NoEligible") /\ UNCHANGED <<remaining, scheduler_snapshot, fetch_count>>
       ELSE IF dry_run
       THEN pc' = "step3" /\ UNCHANGED <<exit_code, error, remaining, scheduler_snapshot, fetch_count>>
       ELSE /\ pc' = "batch"
            /\ UNCHANGED <<exit_code, error>>
            /\ IF pipeline = "pptx"
               THEN /\ remaining' = [k \in 1..Len(items) |-> k]
                    /\ \E fetched \in SnapshotChoices : scheduler_snapshot' = fetched
                    /\ fetch_count' = fetch_count + 1
               ELSE UNCHANGED <<remaining, scheduler_snapshot, fetch_count>>
    /\ UNCHANGED <<call_vars, inputs, cursor, request_count, batch_vars, chunk_index, parts, recovery_vars,
                   paragraph_vars, writer_called, sent>>

\* head of one loop iteration: snapshot, batch, plan, guardrail, chunks
BeginBatch ==
    /\ pc = "batch"
    /\ request_count' = request_count + 1
    /\ fetch_count' = IF pipeline = "docx" THEN fetch_count + 1 ELSE fetch_count
    /\ \E latest_snapshot \in (IF pipeline = "docx" THEN SnapshotChoices ELSE {NoSnapshot}) :
          LET snap == IF pipeline = "docx" /\ latest_snapshot.isdict
                      THEN latest_snapshot ELSE scheduler_snapshot
          IN \E p \in {IF pipeline = "docx" THEN PrepareBatchDocx(snap) ELSE PrepareBatchPptx(snap)} :
             /\ scheduler_snapshot' = snap
             /\ batch' = p.batch
             /\ cursor' = p.cursor
             /\ remaining' = p.remaining
             /\ selected_accounts' = p.plan.accounts
             /\ trimmed_for_single_account' = p.trimmed
             /\ account_chunks' = split_into_account_chunks(items, p.batch, p.plan.accounts)
    /\ pc' = "post"
    /\ UNCHANGED <<call_vars, inputs, exit_code, error, chunk_index, parts, recovery_vars,
                   paragraph_vars, writer_called, sent>>

\* post_batch_request for the whole batch (not inside any try of the step)
PostBatch ==
    /\ pc = "post"
    /\ sent' = sent \o batch
    /\ \E ok \in BOOLEAN :
          IF ok
          THEN /\ pc' = "chunk"
               /\ chunk_index' = 1
               /\ UNCHANGED <<exit_code, error>>
          ELSE /\ Raise("BatchTransport")
               /\ UNCHANGED chunk_index
    /\ UNCHANGED <<call_vars, inputs, queue_vars, batch_vars, parts, recovery_vars,
                   paragraph_vars, writer_called>>

\* one chunk of the response: extract_account_output and the first parse.
\* An account's entry of the response is read only here, so it is drawn here.
\* Mismatching parts are replaced by the result of the recovery and never
\* read before, so they are not kept.
ProcessChunk ==
    /\ pc = "chunk"
    /\ \E o \in AccountOutcomes(remote, CurrentChunk.ids) :
          LET ids == CurrentChunk.ids
              n == Len(ids)
              ps == IF o.kind = "ok" THEN parse_paraphrase_parts(o.text, n) ELSE <<>>
          IN /\ IF Len(ps) # n
                THEN /\ pc' = "recover"
                     /\ parts' = <<>>
                     /\ stack' = <<NewFrame(ids, 0)>>
                     /\ UNCHANGED leaf
                ELSE /\ pc' = "writeback"
                     /\ parts' = ps
                     /\ stack' = <<>>
                     /\ leaf' = [i \in DOMAIN leaf |->
                                   IF \E k \in 1..n : ids[k] = i
                                   THEN ps[CHOOSE k \in 1..n : ids[k] = i] ELSE leaf[i]]
    /\ UNCHANGED <<errors, attempts, recovery_calls>>
    /\ UNCHANGED <<call_vars, inputs, exit_code, error, queue_vars, batch_vars, chunk_index,
                   paragraph_vars, writer_called, sent>>

\* one pass of the for loop of request_chunk_output_with_fallback for the
\* invocation on top of the stack, and on success the rest of that
\* invocation of recover_account_chunk_parts up to the next remote call
RecoveryAttempt ==
    /\ pc = "recover"
    /\ LET top == Last(stack)
           order == recovery_account_order(CurrentChunk.account_key)
           key == order[Len(errors) + 1]
           tried == IF errors = <<>> THEN <<>> ELSE attempts
       IN /\ recovery_calls' = IF errors = <<>> THEN recovery_calls + 1 ELSE recovery_calls
          /\ \E o \in AccountOutcomes(remote, top.ids) \cup {[kind |-> "transport", text |-> <<>>]} :
                IF o.kind # "ok"
                THEN /\ errors' = Append(errors, [key |-> key, failure |-> o.kind])
                     /\ attempts' = Append(tried, [key |-> key, ok |-> FALSE])
                     /\ IF AllAccountsFailed(Append(errors, [key |-> key, failure |-> o.kind]), order)
                        THEN Raise("RecoveryExhausted")
                        ELSE UNCHANGED <<pc, exit_code, error>>
                     /\ UNCHANGED <<stack, parts, leaf>>
                ELSE \E r \in {AfterRequest(stack, o.text, leaf)} :
                        /\ attempts' = Append(tried, [key |-> key, ok |-> TRUE])
                        /\ leaf' = r.leaf
                        /\ CASE r.kind = "raise" ->
                                   /\ Raise(r.error)
                                   /\ UNCHANGED <<stack, parts, errors>>
                             [] r.kind = "call" ->
                                   /\ stack' = r.stack
                                   /\ errors' = <<>>
                                   /\ UNCHANGED <<pc, exit_code, error, parts>>
                             [] OTHER ->
                                   /\ stack' = <<>>
                                   /\ parts' = r.result
                                   /\ pc' = "writeback"
                                   /\ UNCHANGED <<exit_code, error, errors>>
    /\ UNCHANGED <<call_vars, inputs, queue_vars, batch_vars, chunk_index,
                   paragraph_vars, writer_called, sent>>

\* the text set_paragraph_text receives for a resolved segment
WrittenText(new_text) ==
    IF pipeline = "docx" THEN CollapseBreaks(new_text) ELSE Strip(new_text)

\* variant: only the first segment of a chunk is written back
WriteBack_FirstOnly ==
    /\ pc = "writeback"
    /\ LET ids == CurrentChunk.ids
           m == Min2(Len(ids), Len(parts))
           Hits(i) == {k \in 1..Min2(m, 1) : ids[k] = i}
           LastHit(i) == CHOOSE k \in Hits(i) : \A j \in Hits(i) : j <= k
       IN IF Len(parts) # Len(ids)
          THEN /\ Raise("CountMismatch")
               /\ UNCHANGED <<paragraph_vars, chunk_index, batch_vars, parts, recovery_vars>>
          ELSE /\ text' = [i \in DOMAIN text |->
                              IF Hits(i) # {} THEN WrittenText(parts[LastHit(i)]) ELSE text[i]]
               /\ writes' = [i \in DOMAIN writes |-> writes[i] + Cardinality(Hits(i))]
               /\ updated_count' = updated_count + m
               /\ UNCHANGED <<exit_code, error>>
               /\ parts' = <<>>
               /\ errors' = <<>>
               /\ attempts' = <<>>
               /\ recovery_calls' = 0
               /\ leaf' = [i \in DOMAIN leaf |-> <<>>]
               /\ UNCHANGED stack
               /\ IF chunk_index < Len(account_chunks)
                  THEN /\ pc' = "chunk"
                       /\ chunk_index' = chunk_index + 1
                       /\ UNCHANGED batch_vars
                  ELSE /\ pc' = IF Pending # <<>> THEN "batch" ELSE "step3"
                       /\ chunk_index' = 0
                       /\ batch' = <<>>
                       /\ selected_accounts' = <<>>
                       /\ trimmed_for_single_account' = FALSE
                       /\ account_chunks' = <<>>
    /\ UNCHANGED <<call_vars, inputs, queue_vars, writer_called, sent>>

\* lines 1314-1326: the count check and the write-back loop of one chunk,
\* then the chunk loop and the batch loop advance.  Locals that are
\* overwritten before they are read again are cleared.
WriteBack ==
    /\ pc = "writeback"
    /\ LET ids == CurrentChunk.ids
           m == Min2(Len(ids), Len(parts))
           Hits(i) == {k \in 1..m : ids[k] = i}
           LastHit(i) == CHOOSE k \in Hits(i) : \A j \in Hits(i) : j <= k
       IN IF Len(parts) # Len(ids)
          THEN /\ Raise("CountMismatch")
               /\ UNCHANGED <<paragraph_vars, chunk_index, batch_vars, parts, recovery_vars>>
          ELSE /\ text' = [i \in DOMAIN text |->
                              IF Hits(i) # {} THEN WrittenText(parts[LastHit(i)]) ELSE text[i]]
               /\ writes' = [i \in DOMAIN writes |-> writes[i] + Cardinality(Hits(i))]
               /\ updated_count' = updated_count + m
               /\ UNCHANGED <<exit_code, error>>
               /\ parts' = <<>>
               /\ errors' = <<>>
               /\ attempts' = <<>>
               /\ recovery_calls' = 0
               /\ leaf' = [i \in DOMAIN leaf |-> <<>>]
               /\ UNCHANGED stack
               /\ IF chunk_index < Len(account_chunks)
                  THEN /\ pc' = "chunk"
                       /\ chunk_index' = chunk_index + 1
                       /\ UNCHANGED batch_vars
                  ELSE /\ pc' = IF Pending # <<>> THEN "batch" ELSE "step3"
                       /\ chunk_index' = 0
                       /\ batch' = <<>>
                       /\ selected_accounts' = <<>>
                       /\ trimmed_for_single_account' = FALSE
                       /\ account_chunks' = <<>>
    /\ UNCHANGED <<call_vars, inputs, queue_vars, writer_called, sent>>

\* [3/4] run_step_3_add_references (or its dry-run check)
Step3References ==
    /\ pc = "step3"
    /\ \E ok \in BOOLEAN :
          IF ok
          THEN pc' = "step4" /\ UNCHANGED <<exit_code, error>>
          ELSE Raise("Step3Failed")
    /\ UNCHANGED <<call_vars, inputs, queue_vars, batch_vars, chunk_index, parts, recovery_vars,
                   paragraph_vars, writer_called, sent>>

\* [4/4] write_output_docx / write_output_pptx, skipped by a dry run
Step4Write ==
    /\ pc = "step4"
    /\ IF dry_run
       THEN /\ pc' = "done" /\ exit_code' = 0
            /\ UNCHANGED <<error, writer_called>>
       ELSE /\ writer_called' = TRUE
            /\ \E ok \in BOOLEAN :
                  IF ok
                  THEN pc' = "done" /\ exit_code' = 0 /\ UNCHANGED error
                  ELSE Raise("WriteFailed")
    /\ UNCHANGED <<call_vars, inputs, queue_vars, batch_vars, chunk_index, parts, recovery_vars,
                   paragraph_vars, sent>>

Next ==
    \/ Step1Clean
    \/ Preflight
    \/ Step2Start
    \/ BeginBatch
    \/ PostBatch
    \/ ProcessChunk
    \/ RecoveryAttempt
    \/ WriteBack
    \/ Step3References
    \/ Step4Write

Spec == Init /\ [][Next]_vars

SpecRich == (InitRich \/ InitDeep) /\ [][Next]_vars

\* every call main makes returns: the single thread of control always takes
\* its next step
SpecLive == Init /\ [][Next]_vars /\ WF_vars(Next)

\* ------------------------------------------------------------------------
\* split_into_account_chunks as a function of any batch and any list of
\* selected accounts
\* ------------------------------------------------------------------------
SelectedKeyChoices == AccountSet \cup {"acc9"}

InitSplit ==
    /\ pipeline = "docx"
    /\ remote = "basic"
    /\ dry_run = FALSE
    /\ mode = "dual"
    /\ items \in SeqsUpTo(WordChoices, MaxItems)
    /\ max_items_per_request = 80
    /\ max_words_per_request = 2200
    /\ pc = "split"
    /\ batch = [k \in 1..Len(items) |-> k]
    /\ selected_accounts \in SeqsUpTo(SelectedKeyChoices, Len(ACCOUNT_KEYS))
    /\ args = <<>>
    /\ ret = <<>>
    /\ InitLocals

ApplySplit ==
    /\ pc = "split"
    /\ account_chunks' = split_into_account_chunks(items, batch, selected_accounts)
    /\ pc' = "split_done"
    /\ UNCHANGED <<call_vars, inputs, exit_code, error, queue_vars, batch, selected_accounts,
                   trimmed_for_single_account, chunk_index,
                   parts, recovery_vars, paragraph_vars, writer_called, sent>>

NextSplit == ApplySplit

SpecSplit == InitSplit /\ [][NextSplit]_vars

\* ------------------------------------------------------------------------
\* The pure functions of the engine called on their own, on arguments drawn
\* from the families above
\* ------------------------------------------------------------------------
PlanCalls ==
    {[fn |-> "choose_account_plan", total_words |-> w, mode |-> m, snapshot |-> snap] :
        w \in PlanWordChoices, m \in Modes, snap \in PlanSnapshots}

ReadinessPlanCalls ==
    {[fn |-> "choose_account_plan", total_words |-> w, mode |-> m, snapshot |-> snap] :
        w \in PlanWordChoices, m \in Modes, snap \in ReadinessSnapshots}

BudgetCalls ==
    {[fn |-> "effective_budget", snapshot |-> snap, account_key |-> a, mode |-> m] :
        snap \in BudgetSnapshots, a \in AccountSet, m \in Modes}

\* DOCX: any cursor; PPTX: the deque holds the items from any position on
TakeCalls ==
    {[fn |-> f, items |-> q, start_index |-> i,
      max_items_per_request |-> mi, max_words_per_request |-> mw] :
        f \in {"take_request_batch", "take_request_batch_pptx"},
        q \in SeqsUpTo(TakeWordChoices, MaxItems),
        i \in 0..MaxItems,
        mi \in TakeItemLimitChoices, mw \in TakeWordLimitChoices}

ParseTexts ==
    SeqsUpTo(ParseTokens, MaxTextLen)
    \cup {build_batch_payload_text(ids) : ids \in SeqsUpTo(1..MaxItems, MaxItems)}

ParseCalls ==
    {[fn |-> "parse_paraphrase_parts", text |-> t, expected_count |-> n] :
        t \in ParseTexts, n \in 0..MaxItems}

AvailabilityCalls ==
    {[fn |-> "get_available_accounts", snapshot |-> snap] : snap \in AvailabilitySnapshots}

\* the capacity model on the snapshots of every shape
StatusShapeCalls ==
    {[fn |-> "get_available_accounts", snapshot |-> snap] : snap \in StatusShapes}

RawBudgetCalls ==
    {[fn |-> "get_raw_budget", snapshot |-> snap, account_key |-> a, mode |-> m] :
        snap \in BudgetShapes, a \in {ACCOUNT_KEYS[1]}, m \in Modes}

ReliabilityCalls ==
    {[fn |-> "get_reliability_factor", snapshot |-> snap, account_key |-> a, mode |-> m] :
        snap \in ReliabilityShapes, a \in {ACCOUNT_KEYS[1]}, m \in Modes}

PenaltyCalls ==
    {[fn |-> "get_system_penalty_seconds", snapshot |-> snap, account_count |-> n] :
        snap \in PenaltyShapes, n \in 1..Len(ACCOUNT_KEYS)}

InitCalls ==
    /\ pipeline = "docx"
    /\ remote = "basic"
    /\ dry_run = FALSE
    /\ mode = "dual"
    /\ items = <<>>
    /\ max_items_per_request = 80
    /\ max_words_per_request = 2200
    /\ pc = "call"
    /\ batch = <<>>
    /\ selected_accounts = <<>>
    /\ \/ args \in PlanCalls
       \/ args \in ReadinessPlanCalls
       \/ args \in BudgetCalls
       \/ args \in {c \in TakeCalls : c.start_index <= Len(c.items)}
       \/ args \in ParseCalls
       \/ args \in AvailabilityCalls
       \/ args \in StatusShapeCalls
       \/ args \in RawBudgetCalls
       \/ args \in ReliabilityCalls
       \/ args \in PenaltyCalls
    /\ ret = <<>>
    /\ InitLocals

run_vars == <<inputs, exit_code, error, queue_vars, batch_vars, chunk_index, parts,
              recovery_vars, paragraph_vars, writer_called, sent>>

CallPlan ==
    /\ pc = "call"
    /\ args.fn = "choose_account_plan"
    /\ ret' = choose_account_plan(args.total_words, args.mode, args.snapshot)
    /\ pc' = "returned"
    /\ UNCHANGED <<run_vars, args>>

\* the effective budget as choose_account_plan computes it for one account
CallBudget ==
    /\ pc = "call"
    /\ args.fn = "effective_budget"
    /\ ret' = effective_budget(args.snapshot, args.account_key, args.mode)
    /\ pc' = "returned"
    /\ UNCHANGED <<run_vars, args>>

CallTakeDocx ==
    /\ pc = "call"
    /\ args.fn = "take_request_batch"
    /\ ret' = take_request_batch(args.items, args.start_index,
                                 args.max_items_per_request, args.max_words_per_request)
    /\ pc' = "returned"
    /\ UNCHANGED <<run_vars, args>>

CallTakePptx ==
    /\ pc = "call"
    /\ args.fn = "take_request_batch_pptx"
    /\ ret' = take_request_batch_pptx(args.items,
                                      [k \in 1..(Len(args.items) - args.start_index) |->
                                          args.start_index + k],
                                      args.max_items_per_request, args.max_words_per_request)
    /\ pc' = "returned"
    /\ UNCHANGED <<run_vars, args>>

CallParse ==
    /\ pc = "call"
    /\ args.fn = "parse_paraphrase_parts"
    /\ ret' = parse_paraphrase_parts(args.text, args.expected_count)
    /\ pc' = "returned"
    /\ UNCHANGED <<run_vars, args>>

CallAvailable ==
    /\ pc = "call"
    /\ args.fn = "get_available_accounts"
    /\ ret' = get_available_accounts(args.snapshot)
    /\ pc' = "returned"
    /\ UNCHANGED <<run_vars, args>>

\* the functions of the capacity model that call float(): the call returns
\* a value or is left by the OverflowError
CallRawBudget ==
    /\ pc = "call"
    /\ args.fn = "get_raw_budget"
    /\ ret' = get_raw_budget(args.snapshot, args.account_key, args.mode)
    /\ pc' = IF ret' = OVERFLOW_ERROR THEN "raised" ELSE "returned"
    /\ UNCHANGED <<run_vars, args>>

CallReliability ==
    /\ pc = "call"
    /\ args.fn = "get_reliability_factor"
    /\ ret' = get_reliability_factor(args.snapshot, args.account_key, args.mode)
    /\ pc' = IF ret' = OVERFLOW_ERROR THEN "raised" ELSE "returned"
    /\ UNCHANGED <<run_vars, args>>

CallPenalty ==
    /\ pc = "call"
    /\ args.fn = "get_system_penalty_seconds"
    /\ ret' = get_system_penalty_seconds(args.snapshot, args.account_count)
    /\ pc' = IF ret' = OVERFLOW_ERROR THEN "raised" ELSE "returned"
    /\ UNCHANGED <<run_vars, args>>

NextCalls ==
    \/ CallPlan
    \/ CallBudget
    \/ CallRawBudget
    \/ CallReliability
    \/ CallPenalty
    \/ CallAvailable
    \/ CallParse
    \/ CallTakeDocx
    \/ CallTakePptx

SpecCalls == InitCalls /\ [][NextCalls]_vars

\* ------------------------------------------------------------------------
\* The batch loops of the two pipelines side by side: the same queue, limits,
\* mode and snapshot; the DOCX loop works on cursor, the PPTX loop on
\* remaining.  batch, selected_accounts and trimmed_for_single_account hold
\* the DOCX iteration, ret the PPTX iteration.
\* ------------------------------------------------------------------------
PairWordChoices == {200, 600, 800}

InitPair ==
    /\ pipeline = "docx"
    /\ remote = "basic"
    /\ dry_run = FALSE
    /\ mode \in Modes
    /\ items \in SeqsUpTo(PairWordChoices, MaxItems)
    /\ max_items_per_request \in TakeItemLimitChoices
    /\ max_words_per_request \in TakeWordLimitChoices
    /\ pc = "pair"
    /\ batch = <<>>
    /\ selected_accounts = <<>>
    /\ args = <<>>
    /\ ret = <<>>
    /\ exit_code = -1
    /\ error = ""
    /\ request_count = 0
    /\ updated_count = 0
    /\ cursor = 0
    /\ remaining = [k \in 1..Len(items) |-> k]
    /\ scheduler_snapshot \in SnapshotChoices
    /\ fetch_count = 0
    /\ trimmed_for_single_account = FALSE
    /\ account_chunks = <<>>
    /\ chunk_index = 0
    /\ parts = <<>>
    /\ stack = <<>>
    /\ errors = <<>>
    /\ text = [i \in 1..Len(items) |-> OriginalText(i)]
    /\ writes = [i \in 1..Len(items) |-> 0]
    /\ writer_called = FALSE
    /\ sent = <<>>
    /\ attempts = <<>>
    /\ recovery_calls = 0
    /\ leaf = [i \in 1..Len(items) |-> <<>>]

\* one iteration of each loop whose condition holds: while cursor <
\* len(items) (DOCX), while remaining (PPTX)
BatchBoth ==
    /\ pc = "pair"
    /\ cursor < Len(items) \/ remaining # <<>>
    /\ request_count' = request_count + 1
    /\ \E d \in {IF cursor < Len(items)
                 THEN PrepareBatchDocx(scheduler_snapshot)
                 ELSE [batch |-> <<>>, cursor |-> cursor, remaining |-> remaining,
                       plan |-> [accounts |-> <<>>], trimmed |-> FALSE]} :
          /\ batch' = d.batch
          /\ cursor' = d.cursor
          /\ selected_accounts' = d.plan.accounts
          /\ trimmed_for_single_account' = d.trimmed
    /\ \E p \in {IF remaining # <<>>
                 THEN PrepareBatchPptx(scheduler_snapshot)
                 ELSE [batch |-> <<>>, cursor |-> cursor, remaining |-> remaining,
                       plan |-> [accounts |-> <<>>], trimmed |-> FALSE]} :
          /\ remaining' = p.remaining
          /\ ret' = [batch |-> p.batch, selected_accounts |-> p.plan.accounts,
                     trimmed_for_single_account |-> p.trimmed]
    /\ UNCHANGED <<inputs, pc, exit_code, error, scheduler_snapshot, fetch_count, account_chunks,
                   chunk_index, parts, recovery_vars, paragraph_vars, writer_called, sent, args>>

NextPair == BatchBoth

SpecPair == InitPair /\ [][NextPair]_vars

TypeOK ==
    /\ pc \in {"step1", "preflight", "step2", "batch", "post", "chunk", "recover",
               "writeback", "step3", "step4", "done", "split", "split_done",
               "call", "returned", "raised", "pair"}
    /\ exit_code \in {-1, 0, 1}
    /\ cursor \in 0..Len(items)

\* ------------------------------------------------------------------------
\* Properties
\* ------------------------------------------------------------------------
AllIds == [k \in 1..Len(items) |-> k]

\* run_step_2_paraphrase was called and returned its statistics
Step2Completed ==
    /\ ~dry_run
    /\ \/ pc \in {"step3", "step4"}
       \/ pc = "done" /\ error \in {"", "Step3Failed", "WriteFailed"}

\* C1: when the paraphrase step completes without raising, every eligible
\* item has been written back exactly once and the reported count equals the
\* number of eligible items; no item is ever written twice.
C1_WrittenExactlyOnce ==
    /\ \A i \in ItemIds : writes[i] <= 1
    /\ Step2Completed =>
          /\ \A i \in ItemIds : writes[i] = 1
          /\ updated_count = Len(items)

\* a completed paraphrase step that needed several requests for a full queue
C1_Witness ==
    /\ Step2Completed
    /\ Len(items) = MaxItems
    /\ request_count >= 2
    /\ updated_count = MaxItems

\* C2: recover_account_chunk_parts returns exactly n segments for a chunk of
\* n items, segment k being the resolution of item k, or raises; the
\* post-recovery count check of the caller never fails.
C2_RecoveryReturnsN ==
    /\ error # "CountMismatch"
    /\ (pc = "writeback" /\ recovery_calls > 0) =>
          /\ Len(parts) = Len(CurrentChunk.ids)
          /\ \A k \in 1..Len(parts) : parts[k] = leaf[CurrentChunk.ids[k]]

\* a recovery that bisected a chunk down to the depth limit, resolved the
\* items left there one by one and returned one segment per item
C2_Witness ==
    /\ pc = "writeback"
    /\ Len(CurrentChunk.ids) = DeepItems
    /\ recovery_calls = 2 * DeepItems - 1
    /\ Len(parts) = DeepItems

Words(t) == {t[j] : j \in 1..Len(t)} \ {PARA, DELIM, DELIM_UPPER}

\* C3: whenever a segmentation is accepted for a chunk, segment k holds the
\* remote output of item k only: no words of another item, and the words of
\* item k are not dropped.
C3_NoSilentCorruption ==
    (pc = "writeback" /\ Len(parts) = Len(CurrentChunk.ids)) =>
        \A k \in 1..Len(parts) : Words(parts[k]) = {CurrentChunk.ids[k]}

\* C4: recovery of a chunk of n items makes at most 2n-1 fallback requests,
\* each trying at most 3 accounts, and ends with exactly n segments or a
\* fatal error.
C4_RecoveryCallBound ==
    (chunk_index > 0 /\ pc \in {"recover", "writeback", "done"}) =>
        /\ recovery_calls <= 2 * Len(CurrentChunk.ids) - 1
        /\ Len(attempts) <= 3
        /\ pc = "writeback" => Len(parts) = Len(CurrentChunk.ids)
        /\ pc = "done" => error # ""

\* a three-item chunk whose recovery took all five requests
C4_Witness ==
    /\ pc = "writeback"
    /\ chunk_index > 0
    /\ Len(CurrentChunk.ids) = 3
    /\ recovery_calls = 5

RECURSIVE IsSubsequence(_, _)
IsSubsequence(sub, full) ==
    IF sub = <<>> THEN TRUE
    ELSE IF full = <<>> THEN FALSE
    ELSE IF Head(sub) = Head(full) THEN IsSubsequence(Tail(sub), Tail(full))
    ELSE IsSubsequence(sub, Tail(full))

ChunksPartition ==
    /\ \A i \in 1..Len(batch) :
          Cardinality({<<c, k>> \in (1..Len(account_chunks)) \X (1..Len(batch)) :
                          /\ k <= Len(account_chunks[c].ids)
                          /\ account_chunks[c].ids[k] = batch[i]}) = 1
    /\ \A c, d \in 1..Len(account_chunks) :
          account_chunks[c].account_key = account_chunks[d].account_key => c = d
    /\ \A c \in 1..Len(account_chunks) : IsSubsequence(account_chunks[c].ids, batch)

NoRepeatedKey(keys) ==
    \A i, j \in 1..Len(keys) : keys[i] = keys[j] => i = j

\* C5 as stated: for any batch and any list of selected accounts the chunks
\* partition the batch: every item is in exactly one chunk, every account
\* key is in at most one chunk, and each chunk keeps the batch order.
\* A list that names an account twice yields that account's bucket twice.
C5_ChunksPartitionBatch == pc = "split_done" => ChunksPartition

\* C5, amended: for any batch and any list of selected accounts that names
\* no account twice (unknown keys allowed), the chunks partition the batch:
\* every item is in exactly one chunk, every account key is in at most one
\* chunk, and each chunk keeps the batch order.
C5_DistinctAccountsPartition ==
    (pc = "split_done" /\ NoRepeatedKey(selected_accounts)) => ChunksPartition

\* three items spread over two known accounts, an unknown key filtered out,
\* one chunk holding two items
C5_Witness ==
    /\ pc = "split_done"
    /\ selected_accounts = <<"acc2", "acc9", "acc1">>
    /\ Len(batch) = MaxItems
    /\ Len(account_chunks) = 2
    /\ \E c \in 1..Len(account_chunks) : Len(account_chunks[c].ids) >= 2

InLoop == pc \in {"batch", "post", "chunk", "recover", "writeback"}

\* C6: no batch is empty while the queue is non-empty and no item is skipped
\* or reordered: the batches sent so far, the batch about to be sent and the
\* pending items, concatenated, are the original queue; at the end of the
\* step the batches sent are the queue.
C6_BatchesCoverQueue ==
    /\ pc = "post" => batch # <<>>
    /\ InLoop => sent \o (IF pc = "post" THEN batch ELSE <<>>) \o Pending = AllIds
    /\ Step2Completed => sent = AllIds

\* a batch cut short by the single-account guardrail: the chunker would have
\* admitted the next pending item
C6_Witness ==
    /\ pc = "post"
    /\ Pending # <<>>
    /\ Len(batch) < max_items_per_request
    /\ SumWords(items, batch) + items[Pending[1]] <= max_words_per_request
    /\ sent # <<>>

KeyIndex(key) == CHOOSE k \in 1..Len(ACCOUNT_KEYS) : ACCOUNT_KEYS[k] = key

\* C7: within one recovery call the preferred account is tried first, then
\* the other keys in declaration order, each at most once, each only after
\* the previous attempt failed, none after a success; a call that ran out of
\* accounts tried every known key.
C7_FallbackOrder ==
    (chunk_index > 0 /\ pc \in {"recover", "writeback", "done"} /\ attempts # <<>>) =>
        /\ attempts[1].key = CurrentChunk.account_key
        /\ \A k \in 2..Len(attempts) :
              /\ attempts[k].key # CurrentChunk.account_key
              /\ k > 2 => KeyIndex(attempts[k - 1].key) < KeyIndex(attempts[k].key)
        /\ \A k \in 1..(Len(attempts) - 1) : ~attempts[k].ok
        /\ error = "RecoveryExhausted" => {attempts[k].key : k \in 1..Len(attempts)} = AccountSet

\* a call that preferred acc2 and succeeded on the last account, acc3
C7_Witness ==
    /\ pc = "writeback"
    /\ chunk_index > 0
    /\ CurrentChunk.account_key = "acc2"
    /\ Len(attempts) = 3
    /\ attempts[3].ok
    /\ attempts[2].key = "acc1"

\* C8: a recovery call raises "recovery failed across all accounts" exactly
\* when the attempt on every known account failed; the error carries one
\* entry per account key, in attempt order, with the account and its failure,
\* and it ends the run with exit code 1 from any depth of the recursion.
C8_ExhaustedIffAllFailed ==
    /\ (error = "RecoveryExhausted") <=> (Len(errors) = Len(ACCOUNT_KEYS))
    /\ error = "RecoveryExhausted" =>
          /\ {errors[k].key : k \in 1..Len(errors)} = AccountSet
          /\ \A k \in 1..Len(errors) :
                /\ errors[k].key = attempts[k].key
                /\ ~attempts[k].ok
                /\ errors[k].failure \in {"transport", "missing", "nofield"}
          /\ pc = "done" /\ exit_code = 1 /\ ~writer_called

\* all accounts failed inside a nested invocation of the recovery
C8_Witness ==
    /\ error = "RecoveryExhausted"
    /\ Len(stack) >= 2
    /\ exit_code = 1

\* C9: a transport or shape error on any remote call, the batch request
\* included, sends the chunk through the account fallback; the run aborts on
\* such an error only after the fallback is exhausted.
C9_AbortOnlyAfterFallback ==
    error \in {"BatchTransport", "RecoveryExhausted"} => Len(errors) = Len(ACCOUNT_KEYS)

ReconciliationErrors ==
    {"NoEligible", "BatchTransport", "RecoveryExhausted", "SingleEmpty", "SplitFailed", "CountMismatch"}

\* C10: the output writer is called only after the paraphrase step wrote
\* every item of every chunk and the reference step succeeded; a fatal
\* condition of the paraphrase step ends the run with exit code 1 and the
\* writer is never called.
C10_WriterOnlyAfterAllResolved ==
    /\ writer_called =>
          /\ error \in {"", "WriteFailed"}
          /\ \A i \in ItemIds : writes[i] = 1
          /\ updated_count = Len(items)
          /\ sent = AllIds
    /\ error \in ReconciliationErrors =>
          /\ pc = "done" /\ exit_code = 1 /\ ~writer_called

\* the writer ran at the end of a successful run over several items
C10_Witness ==
    /\ writer_called
    /\ exit_code = 0
    /\ Len(items) >= 2

Returned(fn) == pc = "returned" /\ args.fn = fn

\* a is below b by more than the hysteresis margin: a + 0.9 s < b
BelowByMoreThanMargin(a, b) ==
    \/ a.ms + HYSTERESIS_MS < b.ms
    \/ a.ms + HYSTERESIS_MS = b.ms /\ FracLess(a.num, a.den, b.num, b.den)

\* the estimate of engaging only the account of the largest effective budget
SingleAccountEstimate(total_words, m, snapshot) ==
    Estimate(total_words,
             Max2(CAPACITY_FLOOR * BUDGET_SCALE, PlanProfiles(m, snapshot)[1].budget),
             m, 1, snapshot)

\* C11: choose_account_plan returns a count above 1 only if the estimate
\* of the returned plan is below the count = 1 estimate by more than 0.9
\* seconds, for count = 2 and for count = 3.
C11_PlanHysteresis ==
    (Returned("choose_account_plan") /\ ret.count > 1) =>
        BelowByMoreThanMargin(ret.estimated,
            SingleAccountEstimate(args.total_words, args.mode, args.snapshot))

\* a plan of three accounts, taken although two accounts were taken before it
C11_Witness ==
    /\ Returned("choose_account_plan")
    /\ ret.count = 3
    /\ choose_account_plan(2 * MODE_MIN_WORDS_PER_ACCOUNT[args.mode],
                           args.mode, args.snapshot).count = 2

\* C12: the effective budget is at least 120 words, and among snapshots
\* that give the account the same raw budget, one that gives it a reliability
\* factor at least as large gives it an effective budget at least as large.
C12_BudgetFloorAndMonotone ==
    Returned("effective_budget") =>
        /\ ret >= EFFECTIVE_BUDGET_FLOOR * BUDGET_SCALE
        /\ \A other \in BudgetSnapshots :
              (/\ get_raw_budget(other, args.account_key, args.mode)
                     = get_raw_budget(args.snapshot, args.account_key, args.mode)
               /\ get_reliability_factor(other, args.account_key, args.mode)
                     >= get_reliability_factor(args.snapshot, args.account_key, args.mode))
              => effective_budget(other, args.account_key, args.mode) >= ret

\* a tripped account with a raw budget of 100 words: the product is 35
\* words, the effective budget is the floor
C12_Witness ==
    /\ Returned("effective_budget")
    /\ get_raw_budget(args.snapshot, args.account_key, args.mode) = 100
    /\ get_reliability_factor(args.snapshot, args.account_key, args.mode) = 2800
    /\ ret = EFFECTIVE_BUDGET_FLOOR * BUDGET_SCALE

\* the batch is the run of Len(b) items that starts at the position start
ContiguousFrom(b, start) == b = [k \in 1..Len(b) |-> start + k]

\* C13: with max_items_per_request >= 1 the batch of take_request_batch is
\* a contiguous run of the queue from the current position (the cursor, or
\* the deque, moves past exactly that run), holds at most
\* max_items_per_request items, has at most max_words_per_request words
\* unless it is one item, and an item above the word cap is admitted alone.
C13_BatchWithinLimits ==
    ((Returned("take_request_batch") \/ Returned("take_request_batch_pptx"))
        /\ args.max_items_per_request >= 1) =>
        /\ ContiguousFrom(ret.batch, args.start_index)
        /\ Len(ret.batch) <= Len(args.items) - args.start_index
        /\ args.start_index < Len(args.items) => ret.batch # <<>>
        /\ Returned("take_request_batch") =>
              /\ ret.idx = args.start_index + Len(ret.batch)
              /\ ret.total_words = SumWords(args.items, ret.batch)
        /\ Returned("take_request_batch_pptx") =>
              ret.batch \o ret.remaining
                  = [k \in 1..(Len(args.items) - args.start_index) |-> args.start_index + k]
        /\ Len(ret.batch) <= args.max_items_per_request
        /\ \/ SumWords(args.items, ret.batch) <= args.max_words_per_request
           \/ Len(ret.batch) = 1
        /\ (/\ args.start_index < Len(args.items)
            /\ args.items[args.start_index + 1] > args.max_words_per_request)
              => ret.batch = <<args.start_index + 1>>

\* an oversized item in the middle of the queue, admitted alone although
\* the item limit allows more and more items follow
C13_Witness ==
    /\ Returned("take_request_batch_pptx")
    /\ args.start_index = 1
    /\ Len(args.items) = MaxItems
    /\ args.items[2] > args.max_words_per_request
    /\ args.max_items_per_request >= 2
    /\ ret.batch = <<2>>
    /\ ret.remaining # <<>>

\* the pieces of a response between its delimiters, in either case, the
\* piece before the first delimiter included
DelimitedPieces(response) == SplitAt(response, DelimTokens)

\* the response is n delimiters, each followed by a segment that is not
\* blank, with nothing but blanks before the first delimiter
CorrectlyDelimited(response, n) ==
    LET pieces == DelimitedPieces(response)
    IN /\ Len(pieces) = n + 1
       /\ Strip(pieces[1]) = <<>>
       /\ \A k \in 2..(n + 1) : Strip(pieces[k]) # <<>>

IsTrimmed(t) == t # <<>> /\ t[1] # PARA /\ t[Len(t)] # PARA

\* C14: a response correctly delimited into exactly n non-empty segments,
\* the delimiter in either case, is parsed with expected count n into exactly
\* those n segments, trimmed, in order; a segment that holds a paragraph
\* break is returned whole (no secondary split).
C14_IdempotentParse ==
    (Returned("parse_paraphrase_parts")
        /\ CorrectlyDelimited(args.text, args.expected_count)) =>
        /\ Len(ret) = args.expected_count
        /\ \A k \in 1..Len(ret) :
              /\ ret[k] = Strip(DelimitedPieces(args.text)[k + 1])
              /\ IsTrimmed(ret[k])

\* a response that opens with a blank and an upper-case delimiter, whose one
\* segment holds a paragraph break and is returned whole
C14_Witness ==
    /\ Returned("parse_paraphrase_parts")
    /\ args.expected_count = 1
    /\ args.text = <<PARA, DELIM_UPPER, 1, PARA, 2>>
    /\ CorrectlyDelimited(args.text, 1)
    /\ ret = << <<1, PARA, 2>> >>

\* the secondary split is accepted: it has the expected count, or it is
\* strictly nearer to it than the primary split
SecondaryAccepted(response, n) ==
    LET primary == PrimarySplit(response)
        recovered == SecondarySplit(primary)
    IN \/ Len(recovered) = n
       \/ Abs(Len(recovered) - n) < Abs(Len(primary) - n)

\* C18: parse_paraphrase_parts returns the secondary split only if that
\* split is accepted; otherwise, and whenever the primary split has at least
\* the expected number of segments, it returns the primary split; every
\* returned segment is trimmed and non-empty.
C18_SecondarySplitRule ==
    Returned("parse_paraphrase_parts") =>
        LET primary == PrimarySplit(args.text)
        IN /\ ret # primary =>
                /\ ret = SecondarySplit(primary)
                /\ SecondaryAccepted(args.text, args.expected_count)
           /\ ~SecondaryAccepted(args.text, args.expected_count) => ret = primary
           /\ Len(primary) >= args.expected_count => ret = primary
           /\ \A k \in 1..Len(ret) : IsTrimmed(ret[k])

\* the secondary split is returned although it misses the expected count,
\* because it is nearer to it than the primary split
C18_Witness ==
    /\ Returned("parse_paraphrase_parts")
    /\ ret = SecondarySplit(PrimarySplit(args.text))
    /\ ret # PrimarySplit(args.text)
    /\ Len(ret) # args.expected_count

\* the snapshot reports scheduler-level per-account health
ReportsHealth(snapshot) ==
    snapshot.isdict /\ snapshot.sched_isdict /\ snapshot.accounts_isdict

\* the accounts whose readiness status is absent, ready or ok
ReadyKeys(snapshot) ==
    {a \in AccountSet : Lower(snapshot.status[a]) \in {"", "ready", "ok"}}

MarkedTripped(snapshot, a) ==
    snapshot.stats_isdict[a] /\ Lower(snapshot.health[a]) = "tripped"

\* keys is the one-element list of the first key of S in the fixed order
IsFirstOf(keys, S) ==
    /\ Len(keys) = 1
    /\ keys[1] \in S
    /\ \A b \in S : KeyIndex(keys[1]) <= KeyIndex(b)

\* never empty, and a duplicate-free subsequence of the fixed key order
WellFormedKeys(keys) ==
    keys # <<>> /\ NoRepeatedKey(keys) /\ IsSubsequence(keys, ACCOUNT_KEYS)

C16_DepthAtMostSix ==
    \A k \in 1..Len(stack) : stack[k].depth <= MAX_RECOVERY_DEPTH

\* C16, amended: no invocation runs at a depth greater than 7; a chunk is
\* bisected only at a depth below 6, a chunk of two or more items that
\* mismatches at depth 6 has its items recovered one by one at depth 7, and
\* an invocation at depth 7 holds exactly one item and calls no further
\* invocation.
C16_DepthAtMostSeven ==
    \A k \in 1..Len(stack) :
        /\ stack[k].depth = k - 1
        /\ stack[k].depth <= MAX_RECOVERY_DEPTH + 1
        /\ stack[k].phase \in {"left", "right"} => stack[k].depth < MAX_RECOVERY_DEPTH
        /\ stack[k].phase = "single" => stack[k].depth = MAX_RECOVERY_DEPTH
        /\ stack[k].depth = MAX_RECOVERY_DEPTH + 1 =>
              /\ Len(stack[k].ids) = 1
              /\ k = Len(stack)

\* an invocation at depth 7, called for the second item of a two-item chunk
\* that mismatched at depth 6
C16_Witness ==
    /\ Len(stack) = MAX_RECOVERY_DEPTH + 2
    /\ Last(stack).depth = MAX_RECOVERY_DEPTH + 1
    /\ stack[MAX_RECOVERY_DEPTH + 1].phase = "single"
    /\ stack[MAX_RECOVERY_DEPTH + 1].idx = 2
    /\ Len(stack[MAX_RECOVERY_DEPTH + 1].ids) = 2

\* frame k of the recovery stack is an invocation that bisected its chunk
\* and waits for the sub-chunk held by frame k + 1
Bisecting(k) == k < Len(stack) /\ stack[k].phase \in {"left", "right"}

\* C17: a chunk of n >= 2 items that mismatches again at depth < 6 is cut at
\* floor(n/2) into two non-empty, strictly smaller sub-chunks; the left one
\* is recovered first and wholly, then the right one, each at depth + 1 and
\* with the chunk's account tried first; the result is the left results
\* followed by the right results.
C17_MidpointBisection ==
    /\ \A k \in 1..Len(stack) :
          LET f == stack[k]
              n == Len(f.ids)
              midpoint == n \div 2
          IN /\ (k < Len(stack) /\ f.depth < MAX_RECOVERY_DEPTH) => Bisecting(k)
             /\ Bisecting(k) =>
                   LET sub == stack[k + 1]
                   IN /\ n >= 2
                      /\ f.depth < MAX_RECOVERY_DEPTH
                      /\ 1 <= midpoint /\ midpoint < n
                      /\ sub.depth = f.depth + 1
                      /\ f.phase = "left" =>
                            /\ sub.ids = SubSeq(f.ids, 1, midpoint)
                            /\ f.acc = <<>>
                      /\ f.phase = "right" =>
                            /\ sub.ids = SubSeq(f.ids, midpoint + 1, n)
                            /\ Len(f.acc) = midpoint
                            /\ \A j \in 1..midpoint : f.acc[j] = leaf[f.ids[j]]
    /\ (pc = "recover" /\ attempts # <<>>) => attempts[1].key = CurrentChunk.account_key
    /\ (pc = "writeback" /\ recovery_calls > 0) =>
          parts = [j \in 1..Len(CurrentChunk.ids) |-> leaf[CurrentChunk.ids[j]]]

\* a four-item chunk cut into 2 and 2: its left half is recovered and its
\* right half, the items 3 and 4 of the chunk, is being requested
C17_Witness ==
    \E k \in 1..Len(stack) :
        /\ Bisecting(k)
        /\ Len(stack[k].ids) = 4
        /\ stack[k].phase = "right"
        /\ Len(stack[k].acc) = 2
        /\ stack[k + 1].ids = SubSeq(stack[k].ids, 3, 4)
        /\ stack[k + 1].phase = "request"

\* C19: when the plan of a request engages exactly one account, the batch
\* that is sent has at most the mode's maximum words per account or is a
\* single item; the guardrail's trimming never empties the batch, and the
\* plan recomputed after trimming still engages exactly one account.
C19_SingleAccountGuardrail ==
    pc = "post" =>
        /\ batch # <<>>
        /\ Len(selected_accounts) = 1 =>
              \/ SumWords(items, batch) <= MaxSingleAccountWords(mode, max_words_per_request)
              \/ Len(batch) = 1
        /\ trimmed_for_single_account => Len(selected_accounts) = 1

\* the guardrail trimmed a batch to two items that fit one account and put
\* the rest back on the queue
C19_Witness ==
    /\ pc = "post"
    /\ trimmed_for_single_account
    /\ Len(selected_accounts) = 1
    /\ Len(batch) = 2
    /\ SumWords(items, batch) <= MaxSingleAccountWords(mode, max_words_per_request)
    /\ Len(sent) + Len(batch) < Len(items)

\* the run was aborted by the reconciliation of chunk chunk_index
AbortedInChunk ==
    /\ pc = "done"
    /\ chunk_index > 0
    /\ error \in {"RecoveryExhausted", "SingleEmpty", "SplitFailed", "CountMismatch"}

\* the items of the batches before the current one and of the chunks of the
\* current batch before chunk chunk_index
CompletedIds ==
    {sent[j] : j \in 1..(Len(sent) - Len(batch))}
    \cup UNION {{account_chunks[c].ids[j] : j \in 1..Len(account_chunks[c].ids)} :
                   c \in 1..(chunk_index - 1)}

\* at any time the items of a chunk of the current batch are all written
\* or all unwritten; after an abort in chunk chunk_index the completed items
\* are written once and no other item is written or changed
WrittenByWholeChunks ==
    /\ \A c \in 1..Len(account_chunks) :
          \A i, j \in 1..Len(account_chunks[c].ids) :
              writes[account_chunks[c].ids[i]] = writes[account_chunks[c].ids[j]]
    /\ AbortedInChunk =>
          \A i \in ItemIds :
              IF i \in CompletedIds
              THEN writes[i] = 1 /\ text[i] # <<>>
              ELSE writes[i] = 0 /\ text[i] = OriginalText(i)

\* no step, an aborting step included, changes the text of an item that
\* was written back
NoRollback ==
    \A i \in ItemIds : writes[i] > 0 => (text'[i] = text[i] /\ writes'[i] = writes[i])

\* C20: when a fatal condition aborts the run while chunk k is reconciled,
\* every item of the chunks completed before keeps the text that was
\* written for it (no rollback), and every item of chunk k, of the later
\* chunks of the batch and of the later batches holds its original text,
\* never written; a chunk is written entirely or not at all.
C20_AbortKeepsCompletedChunks ==
    []WrittenByWholeChunks /\ [][NoRollback]_vars

\* the second chunk of a batch aborted the run: the first chunk is written,
\* the second chunk and an item of a later batch are untouched
C20_Witness ==
    /\ AbortedInChunk
    /\ chunk_index = 2
    /\ \A j \in 1..Len(account_chunks[1].ids) : writes[account_chunks[1].ids[j]] = 1
    /\ \A j \in 1..Len(account_chunks[2].ids) : writes[account_chunks[2].ids[j]] = 0
    /\ Len(sent) < Len(items)
    /\ \A i \in ItemIds : i \notin CompletedIds => writes[i] = 0

HasDelimiter(t) == \E j \in 1..Len(t) : t[j] \in DelimTokens

\* C21: the text stored for a work item that was written back is free of
\* the delimiter token and is not empty, whatever the remote returned.
C21_StoredTextDelimiterFree ==
    \A i \in ItemIds : writes[i] > 0 => (text[i] # <<>> /\ ~HasDelimiter(text[i]))

\* C22: the plan of every batch is computed from a snapshot fetched for
\* that batch, or from the latest successfully fetched one when that fetch
\* fails: when a batch is posted, fetch_health_snapshot has been called once
\* for each batch so far.
C22_SnapshotFetchedPerBatch ==
    pc = "post" => fetch_count >= request_count

\* C23 as stated: every account that choose_account_plan engages has a
\* readiness status that is absent, ready or ok in the snapshot it was given.
\* With no ready account, and with no words to send, the first account is
\* engaged whatever its status.
C23_EngagedAccountsReady ==
    Returned("choose_account_plan") =>
        \A k \in 1..Len(ret.accounts) : ret.accounts[k] \in ReadyKeys(args.snapshot)

\* C23, amended: for a batch of at least one word and a snapshot with at
\* least one account whose status is absent, ready or ok, every engaged
\* account has such a status; with no such account, or with no words, the
\* plan engages exactly the first account of the fixed key order.
C23_EngagedAccountsReadyOrDefault ==
    Returned("choose_account_plan") =>
        IF args.total_words > 0 /\ ReadyKeys(args.snapshot) # {}
        THEN \A k \in 1..Len(ret.accounts) : ret.accounts[k] \in ReadyKeys(args.snapshot)
        ELSE ret.accounts = <<ACCOUNT_KEYS[1]>>

\* acc1 reports a status that is not ready: the two other accounts are
\* engaged
C23_Witness ==
    /\ Returned("choose_account_plan")
    /\ args.total_words > 0
    /\ ReadyKeys(args.snapshot) = {"acc2", "acc3"}
    /\ ret.count = 2
    /\ {ret.accounts[k] : k \in 1..Len(ret.accounts)} = {"acc2", "acc3"}

\* the largest count the plan selector may return for the call
CountCeiling(total_words, m, snapshot) ==
    Min2(Len(get_available_accounts(snapshot)),
         Max2(1, total_words \div MODE_MIN_WORDS_PER_ACCOUNT[m]))

\* C24: the count returned by choose_account_plan is at least 1 and at most
\* min(available accounts, max(1, floor(total words / mode minimum words per
\* account))); a count above 1 has at least that many times the mode minimum
\* in words, and a batch below twice the mode minimum gets one account.
C24_CountWithinCeiling ==
    Returned("choose_account_plan") =>
        /\ 1 <= ret.count
        /\ ret.count <= CountCeiling(args.total_words, args.mode, args.snapshot)
        /\ ret.count > 1 =>
              args.total_words >= ret.count * MODE_MIN_WORDS_PER_ACCOUNT[args.mode]
        /\ args.total_words < 2 * MODE_MIN_WORDS_PER_ACCOUNT[args.mode] => ret.count = 1

\* one word below the mode minimum: one account is engaged although
\* a second one would have cut the estimate by more than the margin
C24_Witness ==
    /\ Returned("choose_account_plan")
    /\ args.total_words = MODE_MIN_WORDS_PER_ACCOUNT[args.mode] - 1
    /\ Len(get_available_accounts(args.snapshot)) = 3
    /\ ret.count = 1
    /\ choose_account_plan_NoWordCap(args.total_words, args.mode, args.snapshot).count > 1

\* the available accounts that come before account a when the accounts are
\* ranked by effective budget, largest first, equal budgets in key order
RankedBefore(a, m, snapshot) ==
    LET available == get_available_accounts(snapshot)
    IN {b \in {available[k] : k \in 1..Len(available)} :
           \/ effective_budget(snapshot, b, m) > effective_budget(snapshot, a, m)
           \/ /\ effective_budget(snapshot, b, m) = effective_budget(snapshot, a, m)
              /\ KeyIndex(b) < KeyIndex(a)}

RECURSIVE SumEffectiveBudgets(_, _, _)
SumEffectiveBudgets(keys, m, snapshot) ==
    IF keys = <<>> THEN 0
    ELSE effective_budget(snapshot, Head(keys), m) + SumEffectiveBudgets(Tail(keys), m, snapshot)

\* C25: for a positive word total the accounts returned by
\* choose_account_plan are the count available accounts of the highest
\* effective budgets, equal budgets taken in the fixed key order, listed by
\* descending budget and pairwise distinct; the list has count entries and
\* the returned capacity is max(100, the sum of their effective budgets).
C25_HighestBudgetsEngaged ==
    (Returned("choose_account_plan") /\ args.total_words > 0) =>
        LET available == get_available_accounts(args.snapshot)
        IN /\ Len(ret.accounts) = ret.count
           /\ NoRepeatedKey(ret.accounts)
           /\ \A k \in 1..Len(ret.accounts) :
                 /\ \E j \in 1..Len(available) : available[j] = ret.accounts[k]
                 /\ Cardinality(RankedBefore(ret.accounts[k], args.mode, args.snapshot)) = k - 1
           /\ ret.capacity = Max2(CAPACITY_FLOOR * BUDGET_SCALE,
                                  SumEffectiveBudgets(ret.accounts, args.mode, args.snapshot))

\* the first account has the smallest budget and the two others the same
\* larger one: these two are engaged, in key order
C25_Witness ==
    /\ Returned("choose_account_plan")
    /\ args.total_words > 0
    /\ Len(get_available_accounts(args.snapshot)) = 3
    /\ effective_budget(args.snapshot, "acc1", args.mode)
           < effective_budget(args.snapshot, "acc2", args.mode)
    /\ effective_budget(args.snapshot, "acc2", args.mode)
           = effective_budget(args.snapshot, "acc3", args.mode)
    /\ ret.count = 2
    /\ ret.accounts = <<"acc2", "acc3">>
    /\ ret.capacity = 2 * effective_budget(args.snapshot, "acc2", args.mode)

\* the accounts split_into_account_chunks distributes over
EngagedAccounts(selected) ==
    LET filtered == SelectSeq(selected, LAMBDA key : key \in AccountSet)
    IN IF filtered = <<>> THEN <<ACCOUNT_KEYS[1]>> ELSE filtered

\* the word totals per engaged account after the items ids were assigned
TotalsAfter(ids, selected) ==
    LET accounts == EngagedAccounts(selected)
        keys == {accounts[k] : k \in 1..Len(accounts)}
    IN Distribute(items, ids, accounts,
                  [buckets |-> [a \in keys |-> <<>>],
                   bucket_words |-> [a \in keys |-> 0]]).bucket_words

\* the largest word count among the items ids, 0 for no item
LargestItem(ids) ==
    IF ids = <<>> THEN 0
    ELSE CHOOSE w \in {items[ids[k]] : k \in 1..Len(ids)} :
             \A k \in 1..Len(ids) : items[ids[k]] <= w

\* the words of the chunk returned for account a, 0 if it got no item
ChunkWords(a) ==
    IF \E c \in 1..Len(account_chunks) : account_chunks[c].account_key = a
    THEN SumWords(items, account_chunks[CHOOSE c \in 1..Len(account_chunks) :
                                           account_chunks[c].account_key = a].ids)
    ELSE 0

\* C26: after split_into_account_chunks has assigned any prefix of the
\* batch, the word totals of two engaged accounts differ by at most the
\* largest item assigned so far; in the chunks returned no account carries
\* more words than another account plus the largest item of the batch.
C26_GreedyBalanceBound ==
    pc = "split_done" =>
        LET accounts == EngagedAccounts(selected_accounts)
            keys == {accounts[k] : k \in 1..Len(accounts)}
        IN /\ \A n \in 0..Len(batch) :
                 \A a, b \in keys :
                     TotalsAfter(SubSeq(batch, 1, n), selected_accounts)[a]
                         - TotalsAfter(SubSeq(batch, 1, n), selected_accounts)[b]
                     <= LargestItem(SubSeq(batch, 1, n))
           /\ \A a, b \in keys : ChunkWords(a) - ChunkWords(b) <= LargestItem(batch)

\* two accounts, a large item and two small ones: the small items both go
\* to the second account, the totals differ by less than the large item
C26_Witness ==
    /\ pc = "split_done"
    /\ selected_accounts = <<"acc1", "acc2">>
    /\ Len(batch) = 3
    /\ Len(account_chunks) = 2
    /\ account_chunks[1].ids = <<1>>
    /\ account_chunks[2].ids = <<2, 3>>
    /\ ChunkWords("acc1") - ChunkWords("acc2") > 0
    /\ ChunkWords("acc1") - ChunkWords("acc2") < LargestItem(batch)

\* a loop iteration takes at least one item off the pending work
BatchTakesAnItem ==
    (pc = "batch" /\ pc' = "post") =>
        (batch' # <<>> /\ Len(Pending') < Len(Pending))

\* C27: every iteration of the batch loop removes at least one item from
\* the pending work, also when the guardrail puts items back; at most N
\* batch requests are issued for a queue of N items; and when every call
\* returns, the loop is left, with the queue empty unless a fatal error
\* ended the run.
C27_ForwardProgress ==
    /\ [][BatchTakesAnItem]_vars
    /\ [](request_count <= Len(items))
    /\ [](Step2Completed => Pending = <<>>)
    /\ <>(pc = "done")

\* the second request of a queue of three items: the guardrail trimmed
\* the batch and put an item back, one item is sent and one is pending
C27_Witness ==
    /\ pc = "post"
    /\ request_count = 2
    /\ Len(items) = 3
    /\ trimmed_for_single_account
    /\ Len(batch) = 1
    /\ Len(Pending) = 1

\* DOCX: the ids from the cursor on
PendingDocx == [k \in 1..(Len(items) - cursor) |-> cursor + k]

\* C28: for the same queue, limits, mode and snapshot, the cursor-based
\* chunker and guardrail of the DOCX loop and the deque-based ones of the
\* PPTX loop produce the same batch in every iteration (with the same
\* accounts and the same guardrail decision) and leave the same pending items.
C28_BatchersAgree ==
    pc = "pair" =>
        /\ PendingDocx = remaining
        /\ request_count > 0 =>
               /\ batch = ret.batch
               /\ selected_accounts = ret.selected_accounts
               /\ trimmed_for_single_account = ret.trimmed_for_single_account

\* a second iteration in which both guardrails trimmed the batch: the DOCX
\* loop moved its cursor back, the PPTX loop pushed the item back to the left
C28_Witness ==
    /\ pc = "pair"
    /\ request_count = 2
    /\ trimmed_for_single_account
    /\ ret.trimmed_for_single_account
    /\ Len(batch) = 1
    /\ ret.batch = <<2>>
    /\ remaining = <<3>>
    /\ cursor = 2

\* a boolean where a number is expected is a wrong-typed field
AsAbsentNumber(v) == IF v \in {JSON_TRUE, JSON_FALSE} THEN NOT_NUMBER ELSE v

\* the snapshot with every wrong-typed field removed
WithoutWrongTyped(snapshot) ==
    [snapshot EXCEPT
        !.status = [a \in AccountSet |->
                       IF snapshot.status[a] = "None" THEN "" ELSE snapshot.status[a]],
        !.per_account_budget =
            [a \in AccountSet |-> [m \in Modes |->
                AsAbsentNumber(snapshot.per_account_budget[a][m])]],
        !.global_budget = [m \in Modes |-> AsAbsentNumber(snapshot.global_budget[m])],
        !.success_rate =
            [a \in AccountSet |-> [m \in Modes |-> AsAbsentNumber(snapshot.success_rate[a][m])]],
        !.retry_rate =
            [a \in AccountSet |-> [m \in Modes |-> AsAbsentNumber(snapshot.retry_rate[a][m])]],
        !.timeout_rate =
            [a \in AccountSet |-> [m \in Modes |-> AsAbsentNumber(snapshot.timeout_rate[a][m])]],
        !.success_ratio = AsAbsentNumber(snapshot.success_ratio),
        !.fallback_rate = AsAbsentNumber(snapshot.fallback_rate)]

CapacityFunctions ==
    {"get_raw_budget", "get_reliability_factor", "get_system_penalty_seconds",
     "get_available_accounts", "effective_budget"}

\* the value the called function of the capacity model gives for snapshot
CapacityValue(snapshot) ==
    CASE args.fn = "get_raw_budget" -> get_raw_budget(snapshot, args.account_key, args.mode)
      [] args.fn = "get_reliability_factor" ->
             get_reliability_factor(snapshot, args.account_key, args.mode)
      [] args.fn = "get_system_penalty_seconds" ->
             get_system_penalty_seconds(snapshot, args.account_count)
      [] args.fn = "get_available_accounts" -> get_available_accounts(snapshot)
      [] OTHER -> effective_budget(snapshot, args.account_key, args.mode)

\* a call of the capacity model is over
CapacityCallOver == pc \in {"returned", "raised"} /\ args.fn \in CapacityFunctions

\* with no snapshot the effective budget is max(120, the mode's default)
DefaultBudgetWithoutSnapshot ==
    (Returned("effective_budget") /\ ~args.snapshot.isdict) =>
        ret = Max2(EFFECTIVE_BUDGET_FLOOR, MODE_DEFAULT_BUDGET[args.mode]) * BUDGET_SCALE

\* C29: for every shape of the snapshot and every mode the raw budget, the
\* reliability factor, the available accounts and the system penalty are
\* returned as values, no call raises; the value is the one the snapshot
\* without its wrong-typed fields gives; with no snapshot the effective
\* budget is max(120, the mode's default budget).
C29_MalformedTreatedAsAbsent ==
    CapacityCallOver =>
        /\ pc = "returned"
        /\ ret = CapacityValue(WithoutWrongTyped(args.snapshot))
        /\ DefaultBudgetWithoutSnapshot

\* the factor of the call's snapshot with the account's health set to h
FactorWithHealth(h) ==
    get_reliability_factor([args.snapshot EXCEPT !.health = [a \in AccountSet |-> h]],
                           args.account_key, args.mode)

\* snapshot, scheduler section, accounts section or the account's entry missing
StatsAbsent ==
    \/ ~args.snapshot.isdict
    \/ ~args.snapshot.sched_isdict
    \/ ~args.snapshot.accounts_isdict
    \/ ~args.snapshot.stats_isdict[args.account_key]

\* C30: the reliability factor get_reliability_factor returns lies in
\* [0.35, 1.05]; it is 1.0 when the snapshot or the account's statistics are
\* absent; and for the same rates a tripped account gets no larger factor
\* than a degraded one, a degraded one no larger factor than one of any
\* other health.
C30_ReliabilityInRange ==
    Returned("get_reliability_factor") =>
        /\ ret >= (35 * BUDGET_SCALE) \div 100
        /\ ret <= (105 * BUDGET_SCALE) \div 100
        /\ StatsAbsent => ret = BUDGET_SCALE
        /\ ~StatsAbsent =>
               /\ FactorWithHealth("tripped") <= FactorWithHealth("degraded")
               /\ \A h \in HealthFieldChoices \ {"Degraded", "Tripped"} :
                      FactorWithHealth("degraded") <= FactorWithHealth(h)

\* a tripped account with a success rate of 0.5: the product 0.175 is raised
\* to 0.35, the degraded account of the same rates gets 0.4, a normal one 0.5
C30_Witness ==
    /\ Returned("get_reliability_factor")
    /\ ~StatsAbsent
    /\ args.snapshot.health[args.account_key] = "Tripped"
    /\ args.snapshot.success_rate[args.account_key][args.mode] = 10
    /\ args.snapshot.retry_rate[args.account_key][args.mode] = NOT_NUMBER
    /\ args.snapshot.timeout_rate[args.account_key][args.mode] = NOT_NUMBER
    /\ ret = 2800
    /\ FactorWithHealth("degraded") = 3200
    /\ FactorWithHealth("ok") = 4000

====
